---- MODULE Spec2Model ----
(***************************************************************************)
(* Network discovery and obsolescence classification of NTL-SysToolbox:    *)
(* NetworkScanner (audit/scanner.py), EOLDatabase (audit/eol_database.py)  *)
(* and ObsolescenceReport (audit/report.py).                               *)
(*                                                                         *)
(* Spec     a run of generate_full_report: scan_network with its pool of   *)
(*          workers, then the analysis and the recommendations             *)
(* FairSpec Spec with the fairness of the thread pool and of the collector *)
(* SpecOS   _guess_os applied to the evidence of one host                  *)
(* SpecEOL  normalize_os_name and check_eol_status applied to one OS name  *)
(* SpecPure sequences of calls on one EOLDatabase, by a caller that changes *)
(*          the dict get_eol_info gave it                                  *)
(* SpecHost _scan_host applied to one address, probe by probe              *)
(* SpecRec  _generate_recommendations applied to one analysed report       *)
(* SpecAnalyze _analyze_host applied to one host record                    *)
(* SpecDays check_eol_status called day after day on one record            *)
(***************************************************************************)
EXTENDS Integers, Sequences, FiniteSets, TLC

VARIABLES
    network_range,  \* argument of scan_network: [addr, plen], possibly malformed
    max_threads,    \* width of the pool (network_audit.max_threads)
    pc,             \* position of generate_full_report / scan_network
    fut,            \* per address: state and result of its future
    queue,          \* work queue of the ThreadPoolExecutor (FIFO)
    exec_count,     \* per address: how many times _scan_host was started
    results,        \* the results dict of scan_network
    output,         \* titles of the results handed to the OutputFormatter
    now,            \* wall clock read by datetime.now()
    start_time,     \* start_time of scan_network
    full_report,    \* the report dict of generate_full_report
    config,         \* the configuration the objects were constructed with
    ref_date,       \* date.today(), or the reference_date of check_eol_status
    os_evidence,    \* SpecOS: the argument of _guess_os
    os_guessed,     \* SpecOS: what _guess_os returned
    q_os_name,      \* SpecEOL: the OS string handed to the database
    q_normalized,   \* SpecEOL: what normalize_os_name returned
    q_status,       \* SpecEOL: what check_eol_status returned
    eol_data,       \* the dict self.eol_data of the EOLDatabase
    q_info,         \* SpecPure: the dict get_eol_info returned to its caller
    q_info_ref,     \* SpecPure: the key of the dict of eol_data that q_info is,
                    \*   None when q_info is a dict of its own
    q_again,        \* SpecPure: what a second check_eol_status returned
    h_ip,           \* SpecHost: the argument of _scan_host
    h_env,          \* SpecHost: the machine at that address
    h_pc,           \* SpecHost: position of _scan_host
    h_port,         \* SpecHost: index in scan_ports of the next port
    h_result,       \* SpecHost: the result dict of _scan_host
    h_return,       \* SpecHost: what _scan_host returned
    h_calls,        \* SpecHost: the probes made so far, in order
    rec_report,     \* SpecRec: the argument of _generate_recommendations
    rec_list,       \* SpecRec: what _generate_recommendations returned
    an_host,        \* SpecAnalyze: the argument of _analyze_host
    an_analysis,    \* SpecAnalyze: what _analyze_host returned
    d_db,           \* SpecDays: the EOLDatabase object
    d_os,           \* SpecDays: the OS name checked every day
    d_day,          \* SpecDays: the number of days gone by
    d_pc,           \* SpecDays: whether today's check is still to make
    d_status,       \* SpecDays: what check_eol_status returned today
    d_prev          \* SpecDays: what it returned the day before

scanVars == <<network_range, max_threads, pc, fut, queue, exec_count, results,
              output, now, start_time, full_report>>

osVars == <<os_evidence, os_guessed>>

eolVars == <<q_os_name, q_normalized, q_status, eol_data, q_info, q_info_ref, q_again>>

hostVars == <<h_ip, h_env, h_pc, h_port, h_result, h_return, h_calls>>

recVars == <<rec_report, rec_list, an_host, an_analysis>>

dayVars == <<d_db, d_os, d_day, d_pc, d_status, d_prev>>

cfgVars == <<config, ref_date>>

vars == <<scanVars, cfgVars, osVars, eolVars, hostVars, recVars, dayVars>>

-----------------------------------------------------------------------------
(* Bounds of the model *)

\* width of an address in bits (IPv4 has 32)
AddrBits == 3
\* the longest host part of a scanned range, in bits
MaxHostBits == 2
\* the largest pool of worker threads (max_threads of the configuration)
MaxThreads == 2
\* number of clock ticks that may elapse during one scan
MaxTime == 1
\* the largest number of hosts of a report handed to _generate_recommendations
MaxRecHosts == 3
\* the number of days check_eol_status is followed over
MaxDays == 14

-----------------------------------------------------------------------------
(* Strings: str.lower(), ' '.join(...) and the subset of re.search the
   pattern tables use *)

UpperChars == "ABCDEFGHIJKLMNOPQRSTUVWXYZ"
LowerChars == "abcdefghijklmnopqrstuvwxyz"

CharAt(s, i) == SubSeq(s, i, i)

LowerChar(c) ==
    IF \E i \in 1 .. Len(UpperChars) : CharAt(UpperChars, i) = c
    THEN CharAt(LowerChars, CHOOSE i \in 1 .. Len(UpperChars) : CharAt(UpperChars, i) = c)
    ELSE c

\* str.lower()
RECURSIVE Lower(_)
Lower(s) == IF s = "" THEN "" ELSE LowerChar(Head(s)) \o Lower(Tail(s))

\* ' '.join(list)
RECURSIVE JoinSpace(_)
JoinSpace(list) ==
    IF list = <<>> THEN ""
    ELSE IF Len(list) = 1 THEN list[1]
    ELSE list[1] \o " " \o JoinSpace(Tail(list))

\* the characters \s matches
WhiteSpace == {" ", "\t", "\n", "\r", "\f"}

\* atoms of a pattern: a literal, \s*, .* and a negative lookahead (?!...)
Lit(str) == [t |-> "lit", s |-> str, r |-> <<>>]
Ws       == [t |-> "ws",  s |-> "",  r |-> <<>>]
AnyStar  == [t |-> "any", s |-> "",  r |-> <<>>]
NotAhead(atoms) == [t |-> "neg", s |-> "", r |-> atoms]

\* the positions at which a match of atoms[k..] that starts at position i of str
\* may end (every way the regex engine can backtrack into)
RECURSIVE MatchFrom(_, _, _, _)
MatchFrom(atoms, k, str, i) ==
    IF k > Len(atoms) THEN {i}
    ELSE LET a == atoms[k] IN
      CASE a.t = "lit" ->
             IF i + Len(a.s) - 1 <= Len(str) /\ SubSeq(str, i, i + Len(a.s) - 1) = a.s
             THEN MatchFrom(atoms, k + 1, str, i + Len(a.s))
             ELSE {}
        [] a.t = "ws" ->
             UNION {MatchFrom(atoms, k + 1, str, j) :
                    j \in {j \in i .. (Len(str) + 1) :
                             \A m \in i .. (j - 1) : CharAt(str, m) \in WhiteSpace}}
        [] a.t = "any" ->
             UNION {MatchFrom(atoms, k + 1, str, j) :
                    j \in {j \in i .. (Len(str) + 1) :
                             \A m \in i .. (j - 1) : CharAt(str, m) # "\n"}}
        [] a.t = "neg" ->
             IF MatchFrom(a.r, 1, str, i) = {}
             THEN MatchFrom(atoms, k + 1, str, i)
             ELSE {}

\* re.search(pattern, str): a pattern is a sequence of alternatives (a|b), each
\* a sequence of atoms; the match may start anywhere
ReSearch(pattern, str) ==
    \E n \in 1 .. Len(pattern) : \E i \in 1 .. (Len(str) + 1) :
        MatchFrom(pattern[n], 1, str, i) # {}

-----------------------------------------------------------------------------
(* datetime.date: strptime(s, '%Y-%m-%d').date(), isoformat(), subtraction *)

Digits == "0123456789"

IsDigit(c) == \E i \in 1 .. 10 : CharAt(Digits, i) = c

DigitVal(c) == (CHOOSE i \in 1 .. 10 : CharAt(Digits, i) = c) - 1

\* int(s) of a string of digits
RECURSIVE StrToNat(_)
StrToNat(s) ==
    IF s = "" THEN 0
    ELSE 10 * StrToNat(SubSeq(s, 1, Len(s) - 1)) + DigitVal(CharAt(s, Len(s)))

\* str(n) of a natural number
RECURSIVE NatToStr(_)
NatToStr(n) ==
    IF n < 10 THEN CharAt(Digits, n + 1)
    ELSE NatToStr(n \div 10) \o CharAt(Digits, (n % 10) + 1)

\* n formatted on at least w digits, padded with zeros
RECURSIVE ZeroPad(_, _)
ZeroPad(str, w) == IF Len(str) >= w THEN str ELSE ZeroPad("0" \o str, w)

\* the value None of an Optional[date]
NoDate == [year |-> 0, month |-> 0, day |-> 0]

IsLeap(y) == (y % 4 = 0) /\ ((y % 100 # 0) \/ (y % 400 = 0))

DaysInMonth(y, m) ==
    IF m = 2 THEN (IF IsLeap(y) THEN 29 ELSE 28)
    ELSE IF m \in {4, 6, 9, 11} THEN 30 ELSE 31

RECURSIVE DaysBeforeMonth(_, _)
DaysBeforeMonth(y, m) ==
    IF m = 1 THEN 0 ELSE DaysBeforeMonth(y, m - 1) + DaysInMonth(y, m - 1)

\* date.toordinal(): the number of the day, 0001-01-01 being day 1
DateOrd(d) ==
    LET y == d.year - 1
    IN  y * 365 + (y \div 4) - (y \div 100) + (y \div 400)
          + DaysBeforeMonth(d.year, d.month) + d.day

\* a variant of DaysBetween that leaves one of the two end days out of the
\* count of a period that is past
DaysBetween_OffByOne(a, b) ==
    IF DateOrd(a) < DateOrd(b) THEN DateOrd(a) - DateOrd(b) + 1
    ELSE DateOrd(a) - DateOrd(b)

\* (a - b).days
DaysBetween(a, b) == DateOrd(a) - DateOrd(b)

\* the positions of the character c in s
Positions(s, c) == {i \in 1 .. Len(s) : CharAt(s, i) = c}

AllDigits(s) == s # "" /\ \A i \in 1 .. Len(s) : IsDigit(CharAt(s, i))

\* _parse_date: None for a missing string and for one that strptime rejects
\* (ValueError), the date otherwise
ParseDate(date_str) ==
    IF date_str = "" THEN NoDate
    ELSE
      LET dash == Positions(date_str, "-") IN
      IF Cardinality(dash) # 2 THEN NoDate
      ELSE
        LET p1 == CHOOSE i \in dash : \A j \in dash : i <= j
            p2 == CHOOSE i \in dash : \A j \in dash : j <= i
            ys == SubSeq(date_str, 1, p1 - 1)
            ms == SubSeq(date_str, p1 + 1, p2 - 1)
            ds == SubSeq(date_str, p2 + 1, Len(date_str))
        IN  IF /\ AllDigits(ys) /\ Len(ys) = 4
               /\ AllDigits(ms) /\ Len(ms) <= 2
               /\ AllDigits(ds) /\ Len(ds) <= 2
               /\ StrToNat(ys) >= 1
               /\ StrToNat(ms) \in 1 .. 12
               /\ StrToNat(ds) \in 1 .. DaysInMonth(StrToNat(ys), StrToNat(ms))
            THEN [year |-> StrToNat(ys), month |-> StrToNat(ms), day |-> StrToNat(ds)]
            ELSE NoDate

\* date.isoformat(), also str(date)
IsoFormat(d) ==
    ZeroPad(NatToStr(d.year), 4) \o "-" \o ZeroPad(NatToStr(d.month), 2)
        \o "-" \o ZeroPad(NatToStr(d.day), 2)

-----------------------------------------------------------------------------
(* NetworkScanner._guess_os *)

\* OS_SIGNATURES['banner_patterns'], in the order of the dict
BannerPatterns == <<
    [src |-> "ubuntu",    re |-> <<<<Lit("ubuntu")>>>>,              os |-> "Ubuntu"],
    [src |-> "debian",    re |-> <<<<Lit("debian")>>>>,              os |-> "Debian"],
    [src |-> "centos",    re |-> <<<<Lit("centos")>>>>,              os |-> "CentOS"],
    [src |-> "red\\s*hat", re |-> <<<<Lit("red"), Ws, Lit("hat")>>>>, os |-> "RHEL"],
    [src |-> "windows",   re |-> <<<<Lit("windows")>>>>,             os |-> "Windows"],
    [src |-> "esxi",      re |-> <<<<Lit("esxi")>>>>,                os |-> "VMware ESXi"],
    [src |-> "vmware",    re |-> <<<<Lit("vmware")>>>>,              os |-> "VMware"],
    [src |-> "openssh",   re |-> <<<<Lit("openssh")>>>>,             os |-> "Linux/Unix"],
    [src |-> "microsoft", re |-> <<<<Lit("microsoft")>>>>,           os |-> "Windows"],
    [src |-> "iis",       re |-> <<<<Lit("iis")>>>>,                 os |-> "Windows Server"] >>

\* os_scores is a dict: a sequence of (key, value) pairs in insertion order
ScoreKeys(scores) == {scores[i].os : i \in DOMAIN scores}

\* os_scores.get(name, 0)
ScoreGet(scores, name) ==
    IF name \in ScoreKeys(scores)
    THEN scores[CHOOSE i \in DOMAIN scores : scores[i].os = name].score
    ELSE 0

\* a variant of ScoreAdd that puts a new key before the keys already scored
ScoreAdd_NewKeyFirst(scores, name, n) ==
    IF name \in ScoreKeys(scores)
    THEN [i \in DOMAIN scores |->
            IF scores[i].os = name
            THEN [os |-> name, score |-> scores[i].score + n]
            ELSE scores[i]]
    ELSE <<[os |-> name, score |-> n]>> \o scores

\* os_scores[name] = os_scores.get(name, 0) + n
ScoreAdd(scores, name, n) ==
    IF name \in ScoreKeys(scores)
    THEN [i \in DOMAIN scores |->
            IF scores[i].os = name
            THEN [os |-> name, score |-> scores[i].score + n]
            ELSE scores[i]]
    ELSE Append(scores, [os |-> name, score |-> n])

\* a variant of MaxKey that gives the last key of the highest value
MaxKey_LastOfTies(scores) ==
    LET i == CHOOSE i \in DOMAIN scores :
                /\ \A j \in DOMAIN scores : scores[j].score <= scores[i].score
                /\ \A j \in (i + 1) .. Len(scores) : scores[j].score < scores[i].score
    IN  scores[i].os

\* max(os_scores, key=os_scores.get): the first key, in insertion order, whose
\* value no other value exceeds
MaxKey(scores) ==
    LET i == CHOOSE i \in DOMAIN scores :
                /\ \A j \in DOMAIN scores : scores[j].score <= scores[i].score
                /\ \A j \in 1 .. (i - 1) : scores[j].score < scores[i].score
    IN  scores[i].os

\* a variant of PortRules in which an open RDP port weighs no more than an
\* open SSH port
PortRules_WeakRdp(open_ports) ==
    LET s0 == [scores |-> <<>>, indicators |-> <<>>, method |-> <<>>]
        s1 == IF 3389 \in open_ports
              THEN [s0 EXCEPT !.scores = ScoreAdd(@, "Windows", 2),
                              !.indicators = Append(@, "Port RDP (3389)")]
              ELSE s0
        s2 == IF 135 \in open_ports \/ (445 \in open_ports /\ 139 \in open_ports)
              THEN [s1 EXCEPT !.scores = ScoreAdd(@, "Windows", 2),
                              !.indicators = Append(@, "Ports Windows (135/139/445)")]
              ELSE s1
        s3 == IF 22 \in open_ports /\ 3389 \notin open_ports
              THEN [s2 EXCEPT !.scores = ScoreAdd(@, "Linux", 2),
                              !.indicators = Append(@, "Port SSH sans RDP")]
              ELSE s2
        s4 == IF (902 \in open_ports \/ 443 \in open_ports)
                   /\ 22 \in open_ports /\ 3389 \notin open_ports
              THEN [s3 EXCEPT !.scores = ScoreAdd(@, "VMware ESXi", 3),
                              !.indicators = Append(@, "Ports VMware (902/443) + SSH")]
              ELSE s3
    IN  s4

\* a variant of PortRules whose second rule wants the three ports 135, 139 and
\* 445 open together
PortRules_AllThree(open_ports) ==
    LET s0 == [scores |-> <<>>, indicators |-> <<>>, method |-> <<>>]
        s1 == IF 3389 \in open_ports
              THEN [s0 EXCEPT !.scores = ScoreAdd(@, "Windows", 3),
                              !.indicators = Append(@, "Port RDP (3389)")]
              ELSE s0
        s2 == IF 135 \in open_ports /\ 445 \in open_ports /\ 139 \in open_ports
              THEN [s1 EXCEPT !.scores = ScoreAdd(@, "Windows", 2),
                              !.indicators = Append(@, "Ports Windows (135/139/445)")]
              ELSE s1
        s3 == IF 22 \in open_ports /\ 3389 \notin open_ports
              THEN [s2 EXCEPT !.scores = ScoreAdd(@, "Linux", 2),
                              !.indicators = Append(@, "Port SSH sans RDP")]
              ELSE s2
        s4 == IF (902 \in open_ports \/ 443 \in open_ports)
                   /\ 22 \in open_ports /\ 3389 \notin open_ports
              THEN [s3 EXCEPT !.scores = ScoreAdd(@, "VMware ESXi", 3),
                              !.indicators = Append(@, "Ports VMware (902/443) + SSH")]
              ELSE s3
    IN  s4

\* a variant of PortRules whose second rule also takes the SMB port 445 alone
\* as a sign of Windows
PortRules_SmbAlone(open_ports) ==
    LET s0 == [scores |-> <<>>, indicators |-> <<>>, method |-> <<>>]
        s1 == IF 3389 \in open_ports
              THEN [s0 EXCEPT !.scores = ScoreAdd(@, "Windows", 3),
                              !.indicators = Append(@, "Port RDP (3389)")]
              ELSE s0
        s2 == IF 135 \in open_ports \/ 445 \in open_ports
              THEN [s1 EXCEPT !.scores = ScoreAdd(@, "Windows", 2),
                              !.indicators = Append(@, "Ports Windows (135/139/445)")]
              ELSE s1
        s3 == IF 22 \in open_ports /\ 3389 \notin open_ports
              THEN [s2 EXCEPT !.scores = ScoreAdd(@, "Linux", 2),
                              !.indicators = Append(@, "Port SSH sans RDP")]
              ELSE s2
        s4 == IF (902 \in open_ports \/ 443 \in open_ports)
                   /\ 22 \in open_ports /\ 3389 \notin open_ports
              THEN [s3 EXCEPT !.scores = ScoreAdd(@, "VMware ESXi", 3),
                              !.indicators = Append(@, "Ports VMware (902/443) + SSH")]
              ELSE s3
    IN  s4

\* the state of _guess_os after the four port rules
PortRules(open_ports) ==
    LET s0 == [scores |-> <<>>, indicators |-> <<>>, method |-> <<>>]
        s1 == IF 3389 \in open_ports
              THEN [s0 EXCEPT !.scores = ScoreAdd(@, "Windows", 3),
                              !.indicators = Append(@, "Port RDP (3389)")]
              ELSE s0
        s2 == IF 135 \in open_ports \/ (445 \in open_ports /\ 139 \in open_ports)
              THEN [s1 EXCEPT !.scores = ScoreAdd(@, "Windows", 2),
                              !.indicators = Append(@, "Ports Windows (135/139/445)")]
              ELSE s1
        s3 == IF 22 \in open_ports /\ 3389 \notin open_ports
              THEN [s2 EXCEPT !.scores = ScoreAdd(@, "Linux", 2),
                              !.indicators = Append(@, "Port SSH sans RDP")]
              ELSE s2
        s4 == IF 902 \in open_ports \/ 443 \in open_ports
              THEN IF 22 \in open_ports /\ 3389 \notin open_ports
                   THEN [s3 EXCEPT !.scores = ScoreAdd(@, "VMware ESXi", 3),
                                   !.indicators = Append(@, "Ports VMware (902/443) + SSH")]
                   ELSE s3
              ELSE s3
    IN  s4

\* the loop over the banner patterns, from pattern k on
RECURSIVE BannerRules(_, _, _)
BannerRules(st, all_banners, k) ==
    IF k > Len(BannerPatterns) THEN st
    ELSE LET p == BannerPatterns[k] IN
         IF ReSearch(p.re, all_banners)
         THEN BannerRules([st EXCEPT !.scores = ScoreAdd(@, p.os, 4),
                                     !.indicators = Append(@, p.src),
                                     !.method = Append(@, "banner_analysis")],
                          all_banners, k + 1)
         ELSE BannerRules(st, all_banners, k + 1)

\* a variant of Confidence that is high only above 5
Confidence_AboveFive(best_score) ==
    IF best_score > 5 THEN "high"
    ELSE IF best_score >= 3 THEN "medium"
    ELSE "low"

\* the confidence of a best score
Confidence(best_score) ==
    IF best_score >= 5 THEN "high"
    ELSE IF best_score >= 3 THEN "medium"
    ELSE "low"

\* the banner patterns applied to each banner in turn, from banner i on
RECURSIVE BannerRulesEach(_, _, _)
BannerRulesEach(st, banners, i) ==
    IF i > Len(banners) THEN st
    ELSE BannerRulesEach(BannerRules(st, Lower(banners[i]), 1), banners, i + 1)

\* a variant of GuessOs that searches the patterns in each banner on its own
GuessOs_EachBanner(host_info) ==
    LET ports       == host_info.open_ports
        open_ports  == {ports[i].port : i \in DOMAIN ports}
        banners     == [i \in DOMAIN ports |-> ports[i].banner]
        st          == BannerRulesEach(PortRules(open_ports), banners, 1)
    IN  IF st.scores # <<>>
        THEN LET best_os == MaxKey(st.scores) IN
             [os_guess |-> best_os,
              os_details |-> [confidence |-> Confidence(ScoreGet(st.scores, best_os)),
                               method |-> st.method,
                               indicators |-> st.indicators,
                               scores |-> st.scores,
                               keys |-> {"confidence", "method", "indicators", "scores"}]]
        ELSE [os_guess |-> "Inconnu",
              os_details |-> [confidence |-> "low",
                               method |-> st.method,
                               indicators |-> st.indicators,
                               scores |-> <<>>,
                               keys |-> {"confidence", "method", "indicators"}]]

\* _guess_os(host_info): host_info.open_ports is the dict of the open ports, a
\* sequence of port_info records [port, banner] in the order they were scanned
GuessOs(host_info) ==
    LET ports       == host_info.open_ports
        open_ports  == {ports[i].port : i \in DOMAIN ports}
        banners     == [i \in DOMAIN ports |-> ports[i].banner]
        all_banners == Lower(JoinSpace(banners))
        st          == BannerRules(PortRules(open_ports), all_banners, 1)
    IN  IF st.scores # <<>>
        THEN LET best_os == MaxKey(st.scores) IN
             [os_guess |-> best_os,
              os_details |-> [confidence |-> Confidence(ScoreGet(st.scores, best_os)),
                               method |-> st.method,
                               indicators |-> st.indicators,
                               scores |-> st.scores,
                               keys |-> {"confidence", "method", "indicators", "scores"}]]
        ELSE [os_guess |-> "Inconnu",
              os_details |-> [confidence |-> "low",
                               method |-> st.method,
                               indicators |-> st.indicators,
                               scores |-> <<>>,
                               keys |-> {"confidence", "method", "indicators"}]]

-----------------------------------------------------------------------------
(* EOLDatabase *)

\* the value None of an Optional[str]
None == "<None>"

\* the value None of an Optional[int] (the day counts are never negative)
NoDays == -1

\* OS_PATTERNS, in the order of the dict
OS_PATTERNS == <<
    [re |-> <<<<Lit("windows"), Ws, Lit("server"), Ws, Lit("2022")>>>>,
       os |-> "Windows Server 2022"],
    [re |-> <<<<Lit("windows"), Ws, Lit("server"), Ws, Lit("2019")>>>>,
       os |-> "Windows Server 2019"],
    [re |-> <<<<Lit("windows"), Ws, Lit("server"), Ws, Lit("2016")>>>>,
       os |-> "Windows Server 2016"],
    [re |-> <<<<Lit("windows"), Ws, Lit("server"), Ws, Lit("2012"), Ws, Lit("r2")>>>>,
       os |-> "Windows Server 2012 R2"],
    [re |-> <<<<Lit("windows"), Ws, Lit("server"), Ws, Lit("2012"), NotAhead(<<Ws, Lit("r2")>>)>>>>,
       os |-> "Windows Server 2012"],
    [re |-> <<<<Lit("windows"), Ws, Lit("server"), Ws, Lit("2008"), Ws, Lit("r2")>>>>,
       os |-> "Windows Server 2008 R2"],
    [re |-> <<<<Lit("windows"), Ws, Lit("server"), Ws, Lit("2008"), NotAhead(<<Ws, Lit("r2")>>)>>>>,
       os |-> "Windows Server 2008"],
    [re |-> <<<<Lit("windows"), Ws, Lit("11")>>>>,
       os |-> "Windows 11"],
    [re |-> <<<<Lit("windows"), Ws, Lit("10")>>>>,
       os |-> "Windows 10"],
    [re |-> <<<<Lit("windows"), Ws, Lit("8.1")>>>>,
       os |-> "Windows 8.1"],
    [re |-> <<<<Lit("windows"), Ws, Lit("8"), NotAhead(<<Lit(".1")>>)>>>>,
       os |-> "Windows 8"],
    [re |-> <<<<Lit("windows"), Ws, Lit("7")>>>>,
       os |-> "Windows 7"],
    [re |-> <<<<Lit("ubuntu"), Ws, Lit("24.04")>>>>,
       os |-> "Ubuntu 24.04"],
    [re |-> <<<<Lit("ubuntu"), Ws, Lit("22.04")>>>>,
       os |-> "Ubuntu 22.04"],
    [re |-> <<<<Lit("ubuntu"), Ws, Lit("20.04")>>>>,
       os |-> "Ubuntu 20.04"],
    [re |-> <<<<Lit("ubuntu"), Ws, Lit("18.04")>>>>,
       os |-> "Ubuntu 18.04"],
    [re |-> <<<<Lit("ubuntu"), Ws, Lit("16.04")>>>>,
       os |-> "Ubuntu 16.04"],
    [re |-> <<<<Lit("debian"), Ws, Lit("12")>>>>,
       os |-> "Debian 12"],
    [re |-> <<<<Lit("debian"), Ws, Lit("11")>>>>,
       os |-> "Debian 11"],
    [re |-> <<<<Lit("debian"), Ws, Lit("10")>>>>,
       os |-> "Debian 10"],
    [re |-> <<<<Lit("debian"), Ws, Lit("9")>>>>,
       os |-> "Debian 9"],
    [re |-> <<<<Lit("centos"), Ws, Lit("stream"), Ws, Lit("9")>>>>,
       os |-> "CentOS Stream 9"],
    [re |-> <<<<Lit("centos"), Ws, Lit("stream"), Ws, Lit("8")>>>>,
       os |-> "CentOS Stream 8"],
    [re |-> <<<<Lit("centos"), Ws, Lit("9")>>>>,
       os |-> "CentOS Stream 9"],
    [re |-> <<<<Lit("centos"), Ws, Lit("8")>>>>,
       os |-> "CentOS 8"],
    [re |-> <<<<Lit("centos"), Ws, Lit("7")>>>>,
       os |-> "CentOS 7"],
    [re |-> <<<<Lit("rhel"), Ws, Lit("9")>>, <<Lit("red"), Ws, Lit("hat"), AnyStar, Lit("9")>>>>,
       os |-> "RHEL 9"],
    [re |-> <<<<Lit("rhel"), Ws, Lit("8")>>, <<Lit("red"), Ws, Lit("hat"), AnyStar, Lit("8")>>>>,
       os |-> "RHEL 8"],
    [re |-> <<<<Lit("rhel"), Ws, Lit("7")>>, <<Lit("red"), Ws, Lit("hat"), AnyStar, Lit("7")>>>>,
       os |-> "RHEL 7"],
    [re |-> <<<<Lit("esxi"), Ws, Lit("8")>>>>,
       os |-> "VMware ESXi 8.0"],
    [re |-> <<<<Lit("esxi"), Ws, Lit("7")>>>>,
       os |-> "VMware ESXi 7.0"],
    [re |-> <<<<Lit("esxi"), Ws, Lit("6.7")>>>>,
       os |-> "VMware ESXi 6.7"],
    [re |-> <<<<Lit("esxi"), Ws, Lit("6.5")>>>>,
       os |-> "VMware ESXi 6.5"],
    [re |-> <<<<Lit("vmware"), AnyStar, Lit("8.0")>>>>,
       os |-> "VMware ESXi 8.0"],
    [re |-> <<<<Lit("vmware"), AnyStar, Lit("7.0")>>>>,
       os |-> "VMware ESXi 7.0"],
    [re |-> <<<<Lit("vmware"), AnyStar, Lit("6.7")>>>>,
       os |-> "VMware ESXi 6.7"],
    [re |-> <<<<Lit("vmware"), AnyStar, Lit("6.5")>>>>,
       os |-> "VMware ESXi 6.5"] >>

\* DEFAULT_EOL_DATA
DEFAULT_EOL_DATA == <<
    [os |-> "Windows Server 2022", eol_date |-> "2031-10-14", extended_support |-> "2031-10-14"],
    [os |-> "Windows Server 2019", eol_date |-> "2029-01-09", extended_support |-> "2029-01-09"],
    [os |-> "Windows Server 2016", eol_date |-> "2027-01-12", extended_support |-> "2027-01-12"],
    [os |-> "Windows Server 2012 R2", eol_date |-> "2023-10-10", extended_support |-> "2026-10-13"],
    [os |-> "Windows Server 2012", eol_date |-> "2023-10-10", extended_support |-> "2026-10-13"],
    [os |-> "Windows Server 2008 R2", eol_date |-> "2020-01-14", extended_support |-> "2023-01-10"],
    [os |-> "Ubuntu 24.04", eol_date |-> "2029-04-01", extended_support |-> "2034-04-01"],
    [os |-> "Ubuntu 22.04", eol_date |-> "2027-04-01", extended_support |-> "2032-04-01"],
    [os |-> "Ubuntu 20.04", eol_date |-> "2025-04-02", extended_support |-> "2030-04-02"],
    [os |-> "Ubuntu 18.04", eol_date |-> "2023-05-31", extended_support |-> "2028-04-01"],
    [os |-> "Ubuntu 16.04", eol_date |-> "2021-04-30", extended_support |-> "2026-04-01"],
    [os |-> "Debian 12", eol_date |-> "2028-06-01", extended_support |-> "2030-06-01"],
    [os |-> "Debian 11", eol_date |-> "2026-06-01", extended_support |-> "2028-06-01"],
    [os |-> "Debian 10", eol_date |-> "2024-06-30", extended_support |-> "2026-06-30"],
    [os |-> "Debian 9", eol_date |-> "2022-06-30", extended_support |-> "2024-06-30"],
    [os |-> "CentOS 7", eol_date |-> "2024-06-30", extended_support |-> "2024-06-30"],
    [os |-> "CentOS 8", eol_date |-> "2021-12-31", extended_support |-> "2021-12-31"],
    [os |-> "RHEL 9", eol_date |-> "2032-05-31", extended_support |-> "2034-05-31"],
    [os |-> "RHEL 8", eol_date |-> "2029-05-31", extended_support |-> "2031-05-31"],
    [os |-> "RHEL 7", eol_date |-> "2024-06-30", extended_support |-> "2026-06-30"],
    [os |-> "VMware ESXi 8.0", eol_date |-> "2029-04-01", extended_support |-> "2031-04-01"],
    [os |-> "VMware ESXi 7.0", eol_date |-> "2025-04-02", extended_support |-> "2027-04-02"],
    [os |-> "VMware ESXi 6.7", eol_date |-> "2022-10-15", extended_support |-> "2023-11-15"],
    [os |-> "VMware ESXi 6.5", eol_date |-> "2022-10-15", extended_support |-> "2022-10-15"] >>

\* thresholds.get('eol_warning_days', 180) and thresholds.get('eol_critical_days', 30)
DefaultWarningDays == 180
DefaultCriticalDays == 30

\* _load_eol_data: the dict of the entries by lowercased name; an entry without
\* a name is skipped and a later entry replaces an earlier one of the same key
LoadEolData(data_list) ==
    LET named == {i \in DOMAIN data_list : data_list[i].os # ""}
        keys  == {Lower(data_list[i].os) : i \in named}
    IN  [k \in keys |->
           LET i == CHOOSE i \in named :
                      /\ Lower(data_list[i].os) = k
                      /\ \A j \in named : Lower(data_list[j].os) = k => j <= i
           IN  [name |-> data_list[i].os,
                eol_date |-> ParseDate(data_list[i].eol_date),
                extended_support |-> ParseDate(data_list[i].extended_support)]]

\* a variant of NormalizeFrom that goes through the whole table and keeps the
\* last rule that matches
RECURSIVE NormalizeFrom_LastMatch(_, _)
NormalizeFrom_LastMatch(os_lower, k) ==
    IF k > Len(OS_PATTERNS) THEN None
    ELSE LET rest == NormalizeFrom_LastMatch(os_lower, k + 1)
         IN  IF rest # None THEN rest
             ELSE IF ReSearch(OS_PATTERNS[k].re, os_lower) THEN OS_PATTERNS[k].os
             ELSE None

\* the loop of normalize_os_name over OS_PATTERNS.items(), from rule k on
RECURSIVE NormalizeFrom(_, _)
NormalizeFrom(os_lower, k) ==
    IF k > Len(OS_PATTERNS) THEN None
    ELSE IF ReSearch(OS_PATTERNS[k].re, os_lower) THEN OS_PATTERNS[k].os
    ELSE NormalizeFrom(os_lower, k + 1)

\* normalize_os_name(os_string)
NormalizeOsName(os_string) ==
    IF os_string = "" \/ os_string = None THEN None
    ELSE NormalizeFrom(Lower(os_string), 1)

\* the value None of an Optional[Dict] returned by get_eol_info
NoInfo == [name |-> None, eol_date |-> NoDate, extended_support |-> NoDate]

\* a variant of GetEolInfo that, finding no record of the name, takes the
\* record of a version of it: a key that begins with the lowercased name
GetEolInfo_AnyVersion(data, os_name) ==
    LET normalized == NormalizeOsName(os_name)
        versions   == {k \in DOMAIN data :
                          /\ os_name # ""
                          /\ Len(k) >= Len(os_name)
                          /\ SubSeq(k, 1, Len(os_name)) = Lower(os_name)}
    IN  IF normalized # None /\ Lower(normalized) \in DOMAIN data
        THEN data[Lower(normalized)]
        ELSE IF Lower(os_name) \in DOMAIN data
        THEN data[Lower(os_name)]
        ELSE IF versions # {}
        THEN data[CHOOSE k \in versions : TRUE]
        ELSE NoInfo

\* a variant of GetEolInfo without the direct lookup of the name itself
GetEolInfo_NoDirectLookup(data, os_name) ==
    LET normalized == NormalizeOsName(os_name)
    IN  IF normalized # None /\ Lower(normalized) \in DOMAIN data
        THEN data[Lower(normalized)]
        ELSE NoInfo

\* get_eol_info(os_name): the record of the normalized name, else the record of
\* the name itself, else None
GetEolInfo(data, os_name) ==
    LET normalized == NormalizeOsName(os_name)
    IN  IF normalized # None /\ Lower(normalized) \in DOMAIN data
        THEN data[Lower(normalized)]
        ELSE IF Lower(os_name) \in DOMAIN data
        THEN data[Lower(os_name)]
        ELSE NoInfo

\* a variant of EmptyStatus that presumes the OS supported until found otherwise
EmptyStatus_Supported(os_name) ==
    [os_original |-> os_name, os_normalized |-> None, status |-> "supported",
     criticality |-> "ok", eol_date |-> None, extended_support |-> None,
     days_until_eol |-> 0, days_since_eol |-> NoDays, message |-> None]

\* the key of eol_data under which get_eol_info finds its record, None when it
\* finds none
GetEolInfoKey(data, os_name) ==
    LET normalized == NormalizeOsName(os_name)
    IN  IF normalized # None /\ Lower(normalized) \in DOMAIN data
        THEN Lower(normalized)
        ELSE IF Lower(os_name) \in DOMAIN data
        THEN Lower(os_name)
        ELSE None

\* a variant of DictCopy that hands out the dict of eol_data itself
DictCopy_SameObject(key) == key

\* self.eol_data[key].copy(): the dict returned is a new object, it is the
\* dict of no key of eol_data (its values are immutable: str, date, None)
DictCopy(key) == None

\* the result dict of check_eol_status before anything is found out
EmptyStatus(os_name) ==
    [os_original |-> os_name, os_normalized |-> None, status |-> "unknown",
     criticality |-> "unknown", eol_date |-> None, extended_support |-> None,
     days_until_eol |-> NoDays, days_since_eol |-> NoDays, message |-> None]

\* abs(n)
Abs(n) == IF n < 0 THEN -n ELSE n

\* a variant of PastStatus whose comparison with the extended date is inclusive
PastStatus_Inclusive(extended_date, reference_date) ==
    IF extended_date # NoDate /\ DateOrd(reference_date) <= DateOrd(extended_date)
    THEN [status |-> "extended_support", criticality |-> "warning"]
    ELSE [status |-> "end_of_life", criticality |-> "critical"]

\* a variant of PastStatus that takes no account of the extended support
PastStatus_NoExtended(extended_date, reference_date) ==
    [status |-> "end_of_life", criticality |-> "critical"]

\* the branch delta < 0 of check_eol_status: the standard end of support is
\* past, the extended support decides
PastStatus(extended_date, reference_date) ==
    IF extended_date # NoDate /\ DateOrd(reference_date) < DateOrd(extended_date)
    THEN [status |-> "extended_support", criticality |-> "warning"]
    ELSE [status |-> "end_of_life", criticality |-> "critical"]

\* a variant of UpcomingStatus whose comparisons with the thresholds are strict
UpcomingStatus_Strict(delta, warning_days, critical_days) ==
    IF delta < critical_days
    THEN [status |-> "critical_soon", criticality |-> "critical"]
    ELSE IF delta < warning_days
    THEN [status |-> "warning_soon", criticality |-> "warning"]
    ELSE [status |-> "supported", criticality |-> "ok"]

\* the branch delta >= 0 of check_eol_status: the thresholds decide
UpcomingStatus(delta, warning_days, critical_days) ==
    IF delta <= critical_days
    THEN [status |-> "critical_soon", criticality |-> "critical"]
    ELSE IF delta <= warning_days
    THEN [status |-> "warning_soon", criticality |-> "warning"]
    ELSE [status |-> "supported", criticality |-> "ok"]

\* the message check_eol_status gives with each status
StatusMessage(status, eol_date, extended_date, reference_date, delta) ==
    CASE status = "extended_support" ->
           "EOL standard depasse, support etendu jusqu'au " \o IsoFormat(extended_date)
             \o " (" \o NatToStr(DaysBetween(extended_date, reference_date)) \o " jours)"
      [] status = "end_of_life" ->
           "FIN DE VIE depuis " \o NatToStr(Abs(delta)) \o " jours - REMPLACEMENT URGENT"
      [] status = "critical_soon" ->
           "EOL dans " \o NatToStr(delta) \o " jours - PLANIFIER MIGRATION"
      [] status = "warning_soon" ->
           "EOL dans " \o NatToStr(delta) \o " jours - Migration a prevoir"
      [] status = "supported" ->
           "Supporte jusqu'au " \o IsoFormat(eol_date) \o " (" \o NatToStr(delta)
             \o " jours)"

\* check_eol_status(os_name, reference_date) of a database with the dict data
\* and the thresholds warning_days and critical_days
CheckEolStatus(data, warning_days, critical_days, os_name, reference_date) ==
    LET result   == EmptyStatus(os_name)
        eol_info == GetEolInfo(data, os_name)
    IN
    IF eol_info = NoInfo
    THEN [result EXCEPT !.message = "OS non trouve dans la base EOL: " \o os_name]
    ELSE
      LET r1 == [result EXCEPT
                   !.os_normalized = eol_info.name,
                   !.eol_date = IF eol_info.eol_date # NoDate
                                THEN IsoFormat(eol_info.eol_date) ELSE None,
                   !.extended_support = IF eol_info.extended_support # NoDate
                                        THEN IsoFormat(eol_info.extended_support) ELSE None]
          eol_date      == eol_info.eol_date
          extended_date == eol_info.extended_support
      IN
      IF eol_date = NoDate
      THEN [r1 EXCEPT !.status = "unknown", !.message = "Date EOL non disponible"]
      ELSE
        LET delta == DaysBetween(eol_date, reference_date)
            class == IF delta < 0
                     THEN PastStatus(extended_date, reference_date)
                     ELSE UpcomingStatus(delta, warning_days, critical_days)
        IN  [r1 EXCEPT
               !.days_since_eol = IF delta < 0 THEN Abs(delta) ELSE NoDays,
               !.days_until_eol = IF delta < 0 THEN NoDays ELSE delta,
               !.status = class.status,
               !.criticality = class.criticality,
               !.message = StatusMessage(class.status, eol_date, extended_date,
                                         reference_date, delta)]

-----------------------------------------------------------------------------
(* ObsolescenceReport *)

\* sub in s
Contains(s, sub) == ReSearch(<<<<Lit(sub)>>>>, s)

\* _suggest_alternatives(os_name)
SuggestAlternatives(os_name) ==
    IF os_name = None \/ os_name = "" THEN <<>>
    ELSE
      LET os_lower == Lower(os_name)
          has(x)   == Contains(os_lower, x)
      IN
      IF has("windows server") /\ (has("2012") \/ has("2008"))
        THEN <<"Windows Server 2019", "Windows Server 2022">>
      ELSE IF has("windows server") /\ has("2016")
        THEN <<"Windows Server 2022">>
      ELSE IF has("ubuntu") /\ (has("16.04") \/ has("18.04"))
        THEN <<"Ubuntu 22.04 LTS", "Ubuntu 24.04 LTS">>
      ELSE IF has("ubuntu") /\ has("20.04")
        THEN <<"Ubuntu 22.04 LTS", "Ubuntu 24.04 LTS">>
      ELSE IF has("debian") /\ (has("9") \/ has("10"))
        THEN <<"Debian 11", "Debian 12">>
      ELSE IF has("centos")
        THEN <<"Rocky Linux 9", "AlmaLinux 9", "RHEL 9">>
      ELSE IF (has("rhel") \/ has("red hat")) /\ has("7")
        THEN <<"RHEL 8", "RHEL 9">>
      ELSE IF (has("esxi") \/ has("vmware")) /\ (has("6.5") \/ has("6.7"))
        THEN <<"VMware ESXi 7.0", "VMware ESXi 8.0">>
      ELSE IF (has("esxi") \/ has("vmware")) /\ has("7.0")
        THEN <<"VMware ESXi 8.0">>
      ELSE <<>>

\* a variant of AnalyzeHost that does not test for the label 'Inconnu'
AnalyzeHost_NoUnknownTest(check_eol_status, host) ==
    LET os_guess == host.os_guess
        base == [ip |-> host.ip, hostname |-> host.hostname, os_detected |-> os_guess,
                 os_confidence |-> host.os_details.confidence,
                 open_ports |-> [i \in DOMAIN host.open_ports |-> host.open_ports[i].port]]
    IN  IF os_guess # None /\ os_guess # ""
        THEN base @@
             [eol_status |-> check_eol_status[os_guess],
              eol_keys |-> {"os_original", "os_normalized", "status", "criticality",
                            "eol_date", "extended_support", "days_until_eol",
                            "days_since_eol", "message"}]
        ELSE base @@
             [eol_status |-> [EmptyStatus(None) EXCEPT !.message = "OS non identifie"],
              eol_keys |-> {"status", "criticality", "message"}]

\* _analyze_host(host): the registry is consulted when the OS was identified;
\* check_eol_status is self.eol_db.check_eol_status, a function of the OS
\* string (the reference date is today's); eol_keys are the keys of the
\* eol_status dict
AnalyzeHost(check_eol_status, host) ==
    LET os_guess == host.os_guess
        base == [ip |-> host.ip, hostname |-> host.hostname, os_detected |-> os_guess,
                 os_confidence |-> host.os_details.confidence,
                 open_ports |-> [i \in DOMAIN host.open_ports |-> host.open_ports[i].port]]
    IN  IF os_guess # None /\ os_guess # "" /\ os_guess # "Inconnu"
        THEN base @@
             [eol_status |-> check_eol_status[os_guess],
              eol_keys |-> {"os_original", "os_normalized", "status", "criticality",
                            "eol_date", "extended_support", "days_until_eol",
                            "days_since_eol", "message"}]
        ELSE base @@
             [eol_status |-> [EmptyStatus(None) EXCEPT !.message = "OS non identifie"],
              eol_keys |-> {"status", "criticality", "message"}]

\* the empty report generate_full_report starts from
EmptyReport ==
    [network_range |-> None,
     summary |-> [total_hosts |-> 0, analyzed |-> 0, supported |-> 0,
                  warning |-> 0, critical |-> 0, unknown |-> 0],
     hosts |-> <<>>,
     by_criticality |-> [critical |-> <<>>, warning |-> <<>>, ok |-> <<>>, unknown |-> <<>>],
     recommendations |-> <<>>]

\* a variant of CountHost that puts each host at the head of the lists
CountHost_Prepend(report, host_analysis) ==
    LET criticality == host_analysis.eol_status.criticality
        key == IF criticality \in {"critical", "warning", "ok"} THEN criticality
               ELSE "unknown"
        sum == IF key = "ok" THEN "supported" ELSE key
    IN  [report EXCEPT !.hosts = <<host_analysis>> \o @,
                       !.summary[sum] = @ + 1,
                       !.by_criticality[key] = <<host_analysis>> \o @,
                       !.summary.analyzed = @ + 1]

\* one iteration of the loop of generate_full_report over the scanned hosts
CountHost(report, host_analysis) ==
    LET criticality == host_analysis.eol_status.criticality
        r1 == [report EXCEPT !.hosts = Append(@, host_analysis)]
        r2 == IF criticality = "critical"
              THEN [r1 EXCEPT !.summary.critical = @ + 1,
                              !.by_criticality.critical = Append(@, host_analysis)]
              ELSE IF criticality = "warning"
              THEN [r1 EXCEPT !.summary.warning = @ + 1,
                              !.by_criticality.warning = Append(@, host_analysis)]
              ELSE IF criticality = "ok"
              THEN [r1 EXCEPT !.summary.supported = @ + 1,
                              !.by_criticality.ok = Append(@, host_analysis)]
              ELSE [r1 EXCEPT !.summary.unknown = @ + 1,
                              !.by_criticality.unknown = Append(@, host_analysis)]
    IN  [r2 EXCEPT !.summary.analyzed = @ + 1]

\* the loop of generate_full_report over scan_results['hosts'], from host k on
RECURSIVE AnalyzeHosts(_, _, _, _)
AnalyzeHosts(report, check_eol_status, hosts, k) ==
    IF k > Len(hosts) THEN report
    ELSE AnalyzeHosts(CountHost(report, AnalyzeHost(check_eol_status, hosts[k])),
                      check_eol_status, hosts, k + 1)

\* current_os of a recommendation: eol_status.get('os_normalized', os_detected)
CurrentOs(host) ==
    IF "os_normalized" \in host.eol_keys
    THEN host.eol_status.os_normalized
    ELSE host.os_detected

\* the recommendation of a critical host
CriticalRec(host) ==
    [priority |-> "CRITIQUE", type |-> "migration_urgente",
     target |-> host.ip, targets |-> <<>>, hostname |-> host.hostname,
     current_os |-> CurrentOs(host),
     action |-> "Migration/remplacement URGENT de " \o CurrentOs(host),
     reason |-> host.eol_status.message,
     suggested_alternatives |-> SuggestAlternatives(CurrentOs(host))]

\* the recommendation of a warning host
WarningRec(host) ==
    LET days == host.eol_status.days_until_eol IN
    [priority |-> "ATTENTION", type |-> "planifier_migration",
     target |-> host.ip, targets |-> <<>>, hostname |-> host.hostname,
     current_os |-> CurrentOs(host),
     action |-> "Planifier la migration de " \o CurrentOs(host),
     reason |-> IF days # NoDays /\ days # 0
                THEN "EOL dans " \o NatToStr(days) \o " jours"
                ELSE "Proche de la fin de vie",
     suggested_alternatives |-> SuggestAlternatives(CurrentOs(host))]

\* the dedicated recommendation of an ESXi 6.5 host
EsxiRec(host) ==
    [priority |-> "CRITIQUE", type |-> "esxi_obsolete",
     target |-> host.ip, targets |-> <<>>, hostname |-> host.hostname,
     current_os |-> "VMware ESXi 6.5",
     action |-> "MISE A JOUR CRITIQUE - ESXi 6.5 est en fin de vie",
     reason |-> "VMware ESXi 6.5 n'est plus supporte depuis octobre 2022",
     suggested_alternatives |-> <<"VMware ESXi 7.0", "VMware ESXi 8.0">>]

\* the recommendation that lists the unknown hosts
InfoRec(unknown_hosts) ==
    [priority |-> "INFO", type |-> "verification_manuelle",
     target |-> None, targets |-> [i \in DOMAIN unknown_hosts |-> unknown_hosts[i].ip],
     hostname |-> None, current_os |-> None,
     action |-> "Verifier manuellement " \o NatToStr(Len(unknown_hosts))
                  \o " hotes non identifies",
     reason |-> "OS non detecte automatiquement",
     suggested_alternatives |-> <<>>]

\* a variant of EsxiCheck that inserts the dedicated entry for every ESXi 6.5
\* host, whether a recommendation targets its address already or not
RECURSIVE EsxiCheck_Always(_, _, _)
EsxiCheck_Always(recommendations, hosts, k) ==
    IF k > Len(hosts) THEN recommendations
    ELSE LET host == hosts[k]
             os_detected == IF host.os_detected = None THEN "" ELSE Lower(host.os_detected)
         IN  IF Contains(os_detected, "esxi") /\ Contains(os_detected, "6.5")
             THEN EsxiCheck_Always(<<EsxiRec(host)>> \o recommendations, hosts, k + 1)
             ELSE EsxiCheck_Always(recommendations, hosts, k + 1)

\* the special ESXi 6.5 loop of _generate_recommendations over report['hosts'],
\* from host k on
RECURSIVE EsxiCheck(_, _, _)
EsxiCheck(recommendations, hosts, k) ==
    IF k > Len(hosts) THEN recommendations
    ELSE LET host == hosts[k]
             os_detected == IF host.os_detected = None THEN "" ELSE Lower(host.os_detected)
         IN  IF /\ Contains(os_detected, "esxi") /\ Contains(os_detected, "6.5")
                /\ ~\E i \in DOMAIN recommendations : recommendations[i].target = host.ip
             THEN EsxiCheck(<<EsxiRec(host)>> \o recommendations, hosts, k + 1)
             ELSE EsxiCheck(recommendations, hosts, k + 1)

\* a variant of GenerateRecommendations that goes through the warning hosts
\* before the critical hosts
GenerateRecommendations_WarningsFirst(report) ==
    LET critical_hosts == report.by_criticality.critical
        warning_hosts  == report.by_criticality.warning
        unknown_hosts  == report.by_criticality.unknown
        r1 == [i \in DOMAIN warning_hosts |-> WarningRec(warning_hosts[i])]
        r2 == r1 \o [i \in DOMAIN critical_hosts |-> CriticalRec(critical_hosts[i])]
        r3 == EsxiCheck(r2, report.hosts, 1)
    IN  IF unknown_hosts # <<>> THEN Append(r3, InfoRec(unknown_hosts)) ELSE r3

\* _generate_recommendations(report)
GenerateRecommendations(report) ==
    LET critical_hosts == report.by_criticality.critical
        warning_hosts  == report.by_criticality.warning
        unknown_hosts  == report.by_criticality.unknown
        r1 == [i \in DOMAIN critical_hosts |-> CriticalRec(critical_hosts[i])]
        r2 == r1 \o [i \in DOMAIN warning_hosts |-> WarningRec(warning_hosts[i])]
        r3 == EsxiCheck(r2, report.hosts, 1)
    IN  IF unknown_hosts # <<>> THEN Append(r3, InfoRec(unknown_hosts)) ELSE r3

\* generate_full_report, after scan_network has returned scan_results
GenerateFullReport(check_eol_status, range, scan_results) ==
    LET r0 == [EmptyReport EXCEPT !.network_range = range,
                                  !.summary.total_hosts = scan_results.hosts_up]
        r1 == AnalyzeHosts(r0, check_eol_status, scan_results.hosts, 1)
    IN  [r1 EXCEPT !.recommendations = GenerateRecommendations(r1)]

-----------------------------------------------------------------------------
(* ipaddress.ip_network(network_range, strict=False) and network.hosts() *)

RECURSIVE Pow2(_)
Pow2(n) == IF n = 0 THEN 1 ELSE 2 * Pow2(n - 1)

Addresses == 0 .. (Pow2(AddrBits) - 1)

\* the argument is well formed when the address and the prefix length are in
\* range; ip_network raises ValueError otherwise
IsValidRange(r) == r.addr \in Addresses /\ r.plen \in 0 .. AddrBits

\* strict=False: the host bits of the address are masked out
NetworkAddress(r) == r.addr - (r.addr % Pow2(AddrBits - r.plen))

NumAddresses(r) == Pow2(AddrBits - r.plen)

\* a variant of HostsToScan that iterates the network itself instead of
\* network.hosts(): the network and the broadcast address are probed too
HostsToScan_AllAddresses(r) ==
    [i \in 1 .. NumAddresses(r) |-> NetworkAddress(r) + i - 1]

\* list(network.hosts()): all addresses but the network and the broadcast
\* address; both addresses of a point-to-point network; the single address of a
\* host route
HostsToScan(r) ==
    LET base == NetworkAddress(r)
        n    == NumAddresses(r)
    IN  IF n = 1 THEN <<base>>
        ELSE IF n = 2 THEN <<base, base + 1>>
        ELSE [i \in 1 .. (n - 2) |-> base + i]

Range(s) == {s[i] : i \in DOMAIN s}

\* the inputs: an address with host bits set and an address out of range, each
\* with every prefix length of at most MaxHostBits host bits and with a prefix
\* length out of range
NetworkRanges ==
    [addr : {Pow2(AddrBits) - 3, Pow2(AddrBits)},
     plen : {p \in 0 .. (AddrBits + 1) : AddrBits - p <= MaxHostBits}]

-----------------------------------------------------------------------------
(* NetworkScanner._scan_host *)

\* the machines of the scanned network, per address: whether a host answers
\* there (_is_host_up), whether a probe of the address can fail with an
\* exception, and what the probes of a host that answers find: the name the
\* reverse resolution gives and the dict of its open ports in the order of
\* scan_ports
Network == [ip \in Addresses |->
    [up |-> ip % 4 \in {1, 2},
     may_raise |-> ip % 2 = 0,
     hostname |-> None,
     open_ports |-> IF ip % 2 = 0
                    THEN <<[port |-> 3389, banner |-> ""]>>
                    ELSE <<[port |-> 22, banner |-> ""], [port |-> 443, banner |-> ""]>>]]

\* the record _scan_host builds for each address when its host is alive
HostRecord == [ip \in Addresses |->
    LET result == [ip |-> ip, is_up |-> TRUE, hostname |-> Network[ip].hostname,
                   open_ports |-> Network[ip].open_ports]
        guess  == GuessOs(result)
    IN  result @@ [os_guess |-> guess.os_guess, os_details |-> guess.os_details]]

\* the possible results of _scan_host(ip): None for a host that is down, the
\* record of a host that is up, or an exception
ScanHostOutcomes(ip) ==
    (IF Network[ip].up
     THEN {[kind |-> "record", rec |-> HostRecord[ip]]}
     ELSE {[kind |-> "none"]})
    \cup (IF Network[ip].may_raise THEN {[kind |-> "raised"]} ELSE {})

-----------------------------------------------------------------------------
(* Config: the eol_database and thresholds sections, and the EOLDatabase
   constructed from them *)

\* an eol_database section that names the OS as the scanner labels them
ConfigEolData == <<
    [os |-> "Windows",     eol_date |-> "2020-01-14", extended_support |-> ""],
    [os |-> "VMware ESXi", eol_date |-> "2022-10-15", extended_support |-> "2022-10-15"],
    [os |-> "Ubuntu",      eol_date |-> "2027-04-01", extended_support |-> "2032-04-01"] >>

\* an eol_database section with later dates, an entry whose date is not in the
\* format %Y-%m-%d, an entry without eol_date and an edition of Windows 11
\* under its own name
ConfigEolDataLater == <<
    [os |-> "Windows",     eol_date |-> "2026-12-15", extended_support |-> ""],
    [os |-> "VMware ESXi", eol_date |-> "2030-01-01", extended_support |-> "2032-01-01"],
    [os |-> "Debian",      eol_date |-> "30/06/2026", extended_support |-> "2028-06-30"],
    [os |-> "CentOS",      eol_date |-> "",           extended_support |-> "2024-06-30"],
    [os |-> "Windows 11 IoT", eol_date |-> "2031-10-14", extended_support |-> ""] >>

\* the configurations of the model: no config.yaml; one with both sections; one
\* with the later dates; one whose eol_critical_days is greater than its
\* eol_warning_days; one with a negative threshold
Configs == <<
    [eol_database |-> <<>>,
     thresholds |-> [eol_warning_days |-> DefaultWarningDays,
                     eol_critical_days |-> DefaultCriticalDays]],
    [eol_database |-> ConfigEolData,
     thresholds |-> [eol_warning_days |-> 90, eol_critical_days |-> 10]],
    [eol_database |-> ConfigEolDataLater,
     thresholds |-> [eol_warning_days |-> 60, eol_critical_days |-> 7]],
    [eol_database |-> <<>>,
     thresholds |-> [eol_warning_days |-> 30, eol_critical_days |-> 180]],
    [eol_database |-> <<>>,
     thresholds |-> [eol_warning_days |-> 180, eol_critical_days |-> -5]] >>

\* a variant of Thresholds that falls back to the default thresholds when the
\* configured ones are negative or in the wrong order
Thresholds_Validated(thresholds) ==
    IF /\ 0 <= thresholds.eol_critical_days
       /\ thresholds.eol_critical_days <= thresholds.eol_warning_days
    THEN [warning_days |-> thresholds.eol_warning_days,
          critical_days |-> thresholds.eol_critical_days]
    ELSE [warning_days |-> DefaultWarningDays, critical_days |-> DefaultCriticalDays]

\* the thresholds of EOLDatabase.__init__: the values of the thresholds section
\* as they are
Thresholds(thresholds) ==
    [warning_days |-> thresholds.eol_warning_days,
     critical_days |-> thresholds.eol_critical_days]

\* EOLDatabase.__init__: eol_data is loaded from the section when it is not
\* empty and from DEFAULT_EOL_DATA otherwise
NewEolDatabase(cfg) ==
    [eol_data |-> LoadEolData(IF cfg.eol_database # <<>>
                              THEN cfg.eol_database ELSE DEFAULT_EOL_DATA),
     warning_days |-> Thresholds(cfg.thresholds).warning_days,
     critical_days |-> Thresholds(cfg.thresholds).critical_days]

\* the EOLDatabase of each configuration of the model
EolDatabase == [c \in DOMAIN Configs |-> NewEolDatabase(Configs[c])]

\* date.today() of the runs of the model
ReportDates == {[year |-> 2026, month |-> 11, day |-> 1]}

\* the labels _guess_os can give a host
OsLabels == {"Windows", "Linux", "VMware ESXi"}
              \cup {BannerPatterns[i].os : i \in DOMAIN BannerPatterns}

\* self.eol_db.check_eol_status(os_guess) of the report, for each configuration
\* and each day
ReportEolStatus == [c \in DOMAIN Configs, today \in ReportDates |->
    [os \in OsLabels |->
       CheckEolStatus(EolDatabase[c].eol_data, EolDatabase[c].warning_days,
                      EolDatabase[c].critical_days, os, today)]]

-----------------------------------------------------------------------------
(* NetworkScanner.scan_network and ObsolescenceReport.generate_full_report *)

NoFuture == [st |-> "unsubmitted", res |-> [kind |-> "none"]]

\* the value of a variable that holds the result of a call not made yet
NotCalled == "<not called>"

\* the values of the variables of the other specifications
OsIdle ==
    /\ os_evidence = [open_ports |-> <<>>]
    /\ os_guessed = [os_guess |-> NotCalled]

\* the dict of the database of the configuration, and no call made
EolFresh ==
    /\ eol_data = EolDatabase[config].eol_data
    /\ q_normalized = NotCalled
    /\ q_status = [status |-> NotCalled]
    /\ q_info = [name |-> NotCalled]
    /\ q_info_ref = None
    /\ q_again = [status |-> NotCalled]

EolIdle ==
    /\ q_os_name = ""
    /\ EolFresh

\* h_result before _scan_host has made its result dict
NoResult == [is_up |-> FALSE]

HostIdle ==
    /\ h_ip = 0
    /\ h_env = [ping |-> "no_reply", hostname |-> None, open |-> {}]
    /\ h_pc = "idle"
    /\ h_port = 1
    /\ h_result = NoResult
    /\ h_return = [kind |-> NotCalled]
    /\ h_calls = <<>>

AnalyzeIdle ==
    /\ an_host = [os_guess |-> None]
    /\ an_analysis = [called |-> FALSE]

RecIdle ==
    /\ rec_report = None
    /\ rec_list = [called |-> FALSE, recs |-> <<>>]
    /\ AnalyzeIdle

\* no check has been made
NoStatus == [status |-> NotCalled, criticality |-> NotCalled]

DayIdle ==
    /\ d_db = [eol_data |-> <<>>, warning_days |-> 0, critical_days |-> 0]
    /\ d_os = ""
    /\ d_day = 0
    /\ d_pc = "idle"
    /\ d_status = NoStatus
    /\ d_prev = NoStatus

CfgIdle ==
    /\ config = 1
    /\ ref_date \in ReportDates
    /\ DayIdle

ScanIdle ==
    /\ network_range = [addr |-> 0, plen |-> AddrBits]
    /\ max_threads = 1
    /\ pc = "idle"
    /\ fut = [a \in Addresses |-> NoFuture]
    /\ queue = <<>>
    /\ exec_count = [a \in Addresses |-> 0]
    /\ results = [hosts |-> <<>>, total_scanned |-> 0, hosts_up |-> 0, keys |-> {}]
    /\ output = <<>>
    /\ now = 0
    /\ start_time = 0
    /\ full_report = None

\* audit_config.get('max_threads', 50)
DefaultMaxThreads == 50

\* the network_audit sections of the model: the keys they have, and the value
\* of max_threads in those that have it
AuditConfigs == [keys : {{}, {"max_threads"}}, max_threads : 1 .. MaxThreads]

\* self.max_threads of NetworkScanner.__init__
MaxThreadsOf(audit_config) ==
    IF "max_threads" \in audit_config.keys THEN audit_config.max_threads
    ELSE DefaultMaxThreads

Init ==
    /\ network_range \in NetworkRanges
    /\ \E audit_config \in AuditConfigs : max_threads = MaxThreadsOf(audit_config)
    /\ pc = "start"
    /\ fut = [a \in Addresses |-> NoFuture]
    /\ queue = <<>>
    /\ exec_count = [a \in Addresses |-> 0]
    /\ results = [hosts |-> <<>>, total_scanned |-> 0, hosts_up |-> 0,
                  keys |-> {"timestamp", "network", "hosts", "total_scanned", "hosts_up"}]
    /\ output = <<>>
    /\ now = 0
    /\ start_time = 0
    /\ full_report = None
    /\ config \in DOMAIN Configs
    /\ DayIdle
    /\ ref_date \in ReportDates
    /\ OsIdle
    /\ EolIdle
    /\ HostIdle
    /\ RecIdle

\* a variant of ScanInvalidRange that falls back to the scan of a default
\* host instead of giving up
ScanInvalidRange_DefaultRange ==
    /\ pc = "start"
    /\ ~IsValidRange(network_range)
    /\ results' = [results EXCEPT !.total_scanned = 1]
    /\ queue' = <<1>>
    /\ fut' = [fut EXCEPT ![1] = [st |-> "pending", res |-> [kind |-> "none"]]]
    /\ output' = Append(output, "Erreur")
    /\ start_time' = now
    /\ pc' = "collecting"
    /\ UNCHANGED <<network_range, max_threads, exec_count, now, full_report, cfgVars, dayVars, hostVars, recVars,
                   osVars, eolVars>>

\* ip_network raises ValueError: the except clause reports it and returns results
ScanInvalidRange ==
    /\ pc = "start"
    /\ ~IsValidRange(network_range)
    /\ output' = Append(output, "Erreur")
    /\ pc' = "returned"
    /\ start_time' = now
    /\ UNCHANGED <<network_range, max_threads, fut, queue, exec_count, results, now,
                   full_report, cfgVars, dayVars, hostVars, recVars, osVars, eolVars>>

\* the range parses: one future per host address is submitted to the executor
ScanSubmit ==
    /\ pc = "start"
    /\ IsValidRange(network_range)
    /\ LET hosts_to_scan == HostsToScan(network_range)
       IN  /\ results' = [results EXCEPT !.total_scanned = Len(hosts_to_scan)]
           /\ queue' = hosts_to_scan
           /\ fut' = [a \in Addresses |->
                        IF a \in Range(hosts_to_scan)
                        THEN [st |-> "pending", res |-> [kind |-> "none"]]
                        ELSE fut[a]]
    /\ output' = Append(output, "Plage reseau")
    /\ start_time' = now
    /\ pc' = "collecting"
    /\ UNCHANGED <<network_range, max_threads, exec_count, now, full_report, cfgVars, dayVars, hostVars, recVars, osVars, eolVars>>

Running == {a \in Addresses : fut[a].st = "running"}

\* a variant of WorkerStart with a rejecting pool: a work item that finds every
\* worker busy is discarded, its future ending without a run of _scan_host
WorkerStart_DropWhenSaturated ==
    /\ queue # <<>>
    /\ LET a == Head(queue)
       IN  IF Cardinality(Running) < max_threads
           THEN /\ fut' = [fut EXCEPT ![a].st = "running"]
                /\ exec_count' = [exec_count EXCEPT ![a] = @ + 1]
           ELSE /\ fut' = [fut EXCEPT ![a].st = "yielded"]
                /\ exec_count' = exec_count
    /\ queue' = Tail(queue)
    /\ UNCHANGED <<network_range, max_threads, pc, results, output, now, start_time,
                   full_report, cfgVars, dayVars, hostVars, recVars, osVars, eolVars>>

\* a variant of WorkerStart with a thread per work item: a queued probe starts
\* whether a worker of the pool is free or not
WorkerStart_ThreadPerProbe ==
    /\ queue # <<>>
    /\ LET a == Head(queue)
       IN  /\ fut' = [fut EXCEPT ![a].st = "running"]
           /\ exec_count' = [exec_count EXCEPT ![a] = @ + 1]
    /\ queue' = Tail(queue)
    /\ UNCHANGED <<network_range, max_threads, pc, results, output, now, start_time,
                   full_report, cfgVars, dayVars, hostVars, recVars, osVars, eolVars>>

\* a free worker thread of the pool takes the next work item of the queue and
\* starts _scan_host on it
WorkerStart ==
    /\ queue # <<>>
    /\ Cardinality(Running) < max_threads
    /\ LET a == Head(queue)
       IN  /\ fut' = [fut EXCEPT ![a].st = "running"]
           /\ exec_count' = [exec_count EXCEPT ![a] = @ + 1]
    /\ queue' = Tail(queue)
    /\ UNCHANGED <<network_range, max_threads, pc, results, output, now, start_time,
                   full_report, cfgVars, dayVars, hostVars, recVars, osVars, eolVars>>

\* a variant of WorkerFinish in which the worker itself appends the record it
\* built to the result list and counts it
WorkerFinish_AppendsItself(a) ==
    /\ fut[a].st = "running"
    /\ \E o \in ScanHostOutcomes(a) :
          /\ fut' = [fut EXCEPT ![a] = [st |-> "done", res |-> [kind |-> "none"]]]
          /\ results' = IF o.kind = "record"
                        THEN [results EXCEPT !.hosts = Append(@, o.rec), !.hosts_up = @ + 1]
                        ELSE results
    /\ UNCHANGED <<network_range, max_threads, pc, queue, exec_count, output,
                   now, start_time, full_report, cfgVars, dayVars, hostVars, recVars, osVars, eolVars>>

\* _scan_host(a) ends and its future is completed with the result or the exception
WorkerFinish(a) ==
    /\ fut[a].st = "running"
    /\ \E o \in ScanHostOutcomes(a) :
          fut' = [fut EXCEPT ![a] = [st |-> "done", res |-> o]]
    /\ UNCHANGED <<network_range, max_threads, pc, queue, exec_count, results, output,
                   now, start_time, full_report, cfgVars, dayVars, hostVars, recVars, osVars, eolVars>>

\* a variant of CollectResult that counts in hosts_up every probe that
\* returned, the probes of the hosts that are down too
CollectResult_CountsEveryProbe(res, r) ==
    IF res.kind = "record" /\ res.rec.is_up
    THEN [r EXCEPT !.hosts = Append(@, res.rec), !.hosts_up = @ + 1]
    ELSE IF res.kind = "none" THEN [r EXCEPT !.hosts_up = @ + 1]
    ELSE r

\* what one iteration of the as_completed loop does to results with the result
\* res of the future it was given
CollectResult(res, r) ==
    IF res.kind = "record" /\ res.rec.is_up
    THEN [r EXCEPT !.hosts = Append(@, res.rec), !.hosts_up = @ + 1]
    ELSE r

\* one iteration of the as_completed loop: a completed future is yielded, once
Collect(a) ==
    /\ pc = "collecting"
    /\ fut[a].st = "done"
    /\ fut' = [fut EXCEPT ![a].st = "yielded"]
    /\ results' = CollectResult(fut[a].res, results)
    /\ output' = IF results'.hosts # results.hosts
                 THEN Append(output, "Hote decouvert") ELSE output
    /\ UNCHANGED <<network_range, max_threads, pc, queue, exec_count, now, start_time,
                   full_report, cfgVars, dayVars, hostVars, recVars, osVars, eolVars>>

\* a variant of ScanReturn with a deadline of MaxTime ticks on the whole scan:
\* at the deadline the scan returns what it has, flagged as truncated
ScanReturn_AtDeadline ==
    /\ pc = "collecting"
    /\ \/ \A a \in Addresses : fut[a].st \in {"unsubmitted", "yielded"}
       \/ now - start_time >= MaxTime
    /\ results' = [results EXCEPT !.keys =
                      @ \cup {"duration_seconds"}
                        \cup (IF \E a \in Addresses : fut[a].st \in {"pending", "running", "done"}
                              THEN {"truncated"} ELSE {})]
    /\ output' = Append(output, "Scan termine")
    /\ pc' = "returned"
    /\ UNCHANGED <<network_range, max_threads, fut, queue, exec_count, now, start_time,
                   full_report, cfgVars, dayVars, hostVars, recVars, osVars, eolVars>>

\* as_completed is exhausted, the executor is shut down, the scan returns
ScanReturn ==
    /\ pc = "collecting"
    /\ \A a \in Addresses : fut[a].st \in {"unsubmitted", "yielded"}
    /\ results' = [results EXCEPT !.keys = @ \cup {"duration_seconds"}]
    /\ output' = Append(output, "Scan termine")
    /\ pc' = "returned"
    /\ UNCHANGED <<network_range, max_threads, fut, queue, exec_count, now, start_time,
                   full_report, cfgVars, dayVars, hostVars, recVars, osVars, eolVars>>

\* time passes while the probes wait for the network
Tick ==
    /\ pc = "collecting"
    /\ Running # {}
    /\ now < MaxTime
    /\ now' = now + 1
    /\ UNCHANGED <<network_range, max_threads, pc, fut, queue, exec_count, results,
                   output, start_time, full_report, cfgVars, dayVars, hostVars, recVars, osVars, eolVars>>

\* generate_full_report goes on with what scan_network returned: the hosts are
\* analysed against the lifecycle data loaded at construction and the
\* recommendations are generated
GenerateReport ==
    /\ pc = "returned"
    /\ full_report' = GenerateFullReport(ReportEolStatus[config, ref_date],
                                         network_range, results)
    /\ pc' = "reported"
    /\ UNCHANGED <<network_range, max_threads, fut, queue, exec_count, results, output,
                   now, start_time, cfgVars, dayVars, hostVars, recVars, osVars, eolVars>>

Next ==
    \/ ScanInvalidRange
    \/ ScanSubmit
    \/ WorkerStart
    \/ \E a \in Addresses : WorkerFinish(a)
    \/ \E a \in Addresses : Collect(a)
    \/ ScanReturn
    \/ Tick
    \/ GenerateReport

Spec == Init /\ [][Next]_vars

\* the steps of scan_network: the thread pool runs every queued probe, every
\* probe ends (each of its network calls has a timeout) and the calling thread
\* goes on while it can; the clock is under no obligation
ScanProgress ==
    \/ ScanInvalidRange
    \/ ScanSubmit
    \/ WorkerStart
    \/ \E a \in Addresses : WorkerFinish(a)
    \/ \E a \in Addresses : Collect(a)
    \/ ScanReturn

FairSpec == Spec /\ WF_vars(ScanProgress)

-----------------------------------------------------------------------------
(* SpecOS: _guess_os applied to the evidence _scan_host collected on one host *)

\* network_audit.scan_ports of a configuration that adds the VMware port 902 to
\* the default list; the open ports of a host are found in this order
OsScanPorts == <<22, 80, 135, 139, 443, 445, 902, 3306, 3389>>

\* what an SSH server may send on connection (port 22)
SshBanners == {"", "SSH-2.0-OpenSSH_8.9p1 Ubuntu-3ubuntu0.1", "SSH-2.0-dropbear_2020.81",
               "SSH-2.0-Red"}

\* what an HTTP server may answer to HEAD / (port 80)
HttpBanners == {"", "HTTP/1.1 200 OK\r\nServer: Apache/2.4.52 (Ubuntu)\r\n",
                "HTTP/1.1 200 OK\r\nServer: Microsoft-IIS/10.0\r\n",
                "Hat 400 Bad Request\r\n"}

\* result['open_ports'] of a host with the ports of open_set open: the
\* port_info records in the order of the scan
OpenPorts(open_set, ssh_banner, http_banner) ==
    LET open_seq == SelectSeq(OsScanPorts, LAMBDA port : port \in open_set)
    IN  [i \in DOMAIN open_seq |->
           [port |-> open_seq[i],
            banner |-> IF open_seq[i] = 22 THEN ssh_banner
                       ELSE IF open_seq[i] = 80 THEN http_banner
                       ELSE ""]]

\* the evidence sets of the model
Evidences ==
    {[open_ports |-> OpenPorts(open_set, ssh_banner, http_banner)] :
        open_set \in SUBSET Range(OsScanPorts),
        ssh_banner \in SshBanners, http_banner \in HttpBanners}

InitOS ==
    /\ os_evidence \in Evidences
    /\ os_guessed = [os_guess |-> NotCalled]
    /\ ScanIdle
    /\ CfgIdle
    /\ EolIdle
    /\ HostIdle
    /\ RecIdle

\* os_guess, os_details = self._guess_os(result)
GuessOsCall ==
    /\ os_guessed.os_guess = NotCalled
    /\ os_guessed' = GuessOs(os_evidence)
    /\ UNCHANGED <<os_evidence, scanVars, cfgVars, dayVars, hostVars, recVars, eolVars>>

NextOS == GuessOsCall

SpecOS == InitOS /\ [][NextOS]_vars

-----------------------------------------------------------------------------
(* SpecEOL: normalize_os_name and check_eol_status applied to one OS string *)

\* the OS strings handed to the database
OsNames ==
    {"Ubuntu 22.04.3 LTS", "Ubuntu 22.04", "Ubuntu", "Debian GNU/Linux 11",
     "Windows Server 2012 R2 Datacenter", "Windows Server 2012 Standard",
     "Windows Server 2008 R2", "Windows 8.1 Pro", "Windows 8", "Windows",
     "Red Hat Enterprise Linux 8.9", "CentOS Stream 8", "VMware ESXi 6.5",
     "Linux", "Debian", "CentOS", "",
     "Windows Server 2008", "Windows 7", "Windows 10", "Windows 11", "CentOS Stream 9",
     "Windows 11 IoT"}

Date(y, m, d) == [year |-> y, month |-> m, day |-> d]

\* the reference dates: around the end of support of Ubuntu 22.04 (2027-04-01)
\* at every threshold of the configurations, around the end of its extended
\* support (2032-04-01), around the end of support of ESXi 6.5 (2022-10-15),
\* and a leap day
ReferenceDates ==
    {Date(2022, 10, 15), Date(2022, 10, 16), Date(2024, 1, 1), Date(2024, 2, 29),
     Date(2026, 1, 1), Date(2026, 10, 2), Date(2026, 10, 3), Date(2026, 11, 1),
     Date(2026, 12, 31), Date(2027, 1, 1), Date(2027, 3, 1), Date(2027, 3, 2),
     Date(2027, 3, 21), Date(2027, 3, 22), Date(2027, 4, 1), Date(2027, 4, 2),
     Date(2032, 3, 31), Date(2032, 4, 1), Date(2032, 4, 2)}

InitEOL ==
    /\ q_os_name \in OsNames
    /\ config \in DOMAIN Configs
    /\ DayIdle
    /\ ref_date \in ReferenceDates
    /\ EolFresh
    /\ ScanIdle
    /\ OsIdle
    /\ HostIdle
    /\ RecIdle

\* normalized = eol_db.normalize_os_name(os_string)
NormalizeOsNameCall ==
    /\ q_normalized = NotCalled
    /\ q_normalized' = NormalizeOsName(q_os_name)
    /\ UNCHANGED <<q_os_name, q_status, eol_data, q_info, q_info_ref, q_again,
                   scanVars, cfgVars, dayVars, hostVars, recVars, osVars>>

\* status = eol_db.check_eol_status(os_name, reference_date)
CheckEolStatusCall ==
    /\ q_status.status = NotCalled
    /\ q_status' = CheckEolStatus(eol_data,
                                  EolDatabase[config].warning_days,
                                  EolDatabase[config].critical_days,
                                  q_os_name, ref_date)
    /\ UNCHANGED <<q_os_name, q_normalized, eol_data, q_info, q_info_ref, q_again,
                   scanVars, cfgVars, dayVars, hostVars, recVars, osVars>>

NextEOL ==
    \/ NormalizeOsNameCall
    \/ CheckEolStatusCall

SpecEOL == InitEOL /\ [][NextEOL]_vars

-----------------------------------------------------------------------------
(* SpecPure: sequences of calls on one EOLDatabase by a caller that keeps and
   changes what it was given *)

PureOsNames == {"Ubuntu 22.04.3 LTS", "VMware ESXi 6.5", "Windows", "Debian", "Linux"}

PureDates == {Date(2024, 1, 1), Date(2026, 11, 1), Date(2027, 4, 2)}

\* the values a caller may store in the eol_date of the dict it was given
CallerDates == {NoDate, Date(1999, 12, 31)}

InitPure ==
    /\ q_os_name \in PureOsNames
    /\ config \in DOMAIN Configs
    /\ DayIdle
    /\ ref_date \in PureDates
    /\ EolFresh
    /\ ScanIdle
    /\ OsIdle
    /\ HostIdle
    /\ RecIdle

\* info = eol_db.get_eol_info(os_name)
GetEolInfoCall ==
    /\ q_info.name = NotCalled
    /\ q_info' = GetEolInfo(eol_data, q_os_name)
    /\ q_info_ref' = LET key == GetEolInfoKey(eol_data, q_os_name)
                     IN  IF key = None THEN None ELSE DictCopy(key)
    /\ UNCHANGED <<q_os_name, q_normalized, q_status, q_again, eol_data,
                   scanVars, cfgVars, dayVars, hostVars, recVars, osVars>>

\* info['eol_date'] = d, by the caller of get_eol_info: the dict changes, and
\* with it whatever holds that same dict
MutateInfo ==
    /\ q_info.name \notin {NotCalled, None}
    /\ \E d \in CallerDates :
          /\ d # q_info.eol_date
          /\ q_info' = [q_info EXCEPT !.eol_date = d]
    /\ eol_data' = IF q_info_ref # None
                   THEN [eol_data EXCEPT ![q_info_ref] = q_info']
                   ELSE eol_data
    /\ UNCHANGED <<q_os_name, q_normalized, q_status, q_again, q_info_ref,
                   scanVars, cfgVars, dayVars, hostVars, recVars, osVars>>

\* a second eol_db.check_eol_status(os_name, reference_date), same arguments
CheckEolStatusAgain ==
    /\ q_status.status # NotCalled
    /\ q_again.status = NotCalled
    /\ q_again' = CheckEolStatus(eol_data,
                                 EolDatabase[config].warning_days,
                                 EolDatabase[config].critical_days,
                                 q_os_name, ref_date)
    /\ UNCHANGED <<q_os_name, q_normalized, q_status, q_info, q_info_ref, eol_data,
                   scanVars, cfgVars, dayVars, hostVars, recVars, osVars>>

NextPure ==
    \/ NormalizeOsNameCall
    \/ GetEolInfoCall
    \/ MutateInfo
    \/ CheckEolStatusCall
    \/ CheckEolStatusAgain

SpecPure == InitPure /\ [][NextPure]_vars

-----------------------------------------------------------------------------
(* SpecHost: _scan_host applied to one address, probe by probe *)

\* self.scan_ports, the default of network_audit.scan_ports
ScanPorts == <<22, 80, 135, 139, 443, 445, 3306, 3389>>

\* the machines an address may have: what ping does (a reply, no reply, or an
\* exception such as TimeoutExpired), the name of the address if it has one,
\* and the ports that accept a connection
HostEnvs == [ping : {"reply", "no_reply", "error"},
             hostname : {None, "srv.ntl.local"},
             open : SUBSET Range(ScanPorts)]

\* an entry of h_calls: the probe made, its port if it has one, what it found
Call(fn, port, found) == [fn |-> fn, port |-> port, found |-> found]

InitHost ==
    /\ h_ip = 5
    /\ h_env \in HostEnvs
    /\ h_pc = "start"
    /\ h_port = 1
    /\ h_result = NoResult
    /\ h_return = [kind |-> NotCalled]
    /\ h_calls = <<>>
    /\ ScanIdle
    /\ CfgIdle
    /\ OsIdle
    /\ EolIdle
    /\ RecIdle

\* the probes of _is_host_up: the ping and, when the ping raises, the quick
\* checks of ports 445 and 22 (the second only when the first fails)
IsHostUpCalls(env) ==
    IF env.ping = "error"
    THEN <<Call("ping", 0, FALSE), Call("check_port_quick", 445, 445 \in env.open)>>
           \o (IF 445 \in env.open THEN <<>>
               ELSE <<Call("check_port_quick", 22, 22 \in env.open)>>)
    ELSE <<Call("ping", 0, env.ping = "reply")>>

\* _is_host_up(ip)
IsHostUp(env) ==
    IF env.ping = "error" THEN (445 \in env.open \/ 22 \in env.open)
    ELSE env.ping = "reply"

\* a variant of CheckHostUp that goes on with the probes of a host that is
\* down
CheckHostUp_ScanAnyway ==
    /\ h_pc = "start"
    /\ h_calls' = h_calls \o IsHostUpCalls(h_env)
                     \o <<Call("is_host_up", 0, IsHostUp(h_env))>>
    /\ h_result' = [ip |-> h_ip, is_up |-> TRUE, hostname |-> None,
                    open_ports |-> <<>>, os_guess |-> None,
                    os_details |-> [confidence |-> None]]
    /\ h_pc' = "resolve"
    /\ UNCHANGED <<h_ip, h_env, h_port, h_return, scanVars, cfgVars, dayVars, recVars, osVars, eolVars>>

\* if not self._is_host_up(ip): return None; else the result dict is made
CheckHostUp ==
    /\ h_pc = "start"
    /\ h_calls' = h_calls \o IsHostUpCalls(h_env)
                     \o <<Call("is_host_up", 0, IsHostUp(h_env))>>
    /\ IF IsHostUp(h_env)
       THEN /\ h_result' = [ip |-> h_ip, is_up |-> TRUE, hostname |-> None,
                            open_ports |-> <<>>, os_guess |-> None,
                            os_details |-> [confidence |-> None]]
            /\ h_pc' = "resolve"
            /\ h_return' = h_return
       ELSE /\ h_return' = [kind |-> "none"]
            /\ h_pc' = "done"
            /\ h_result' = h_result
    /\ UNCHANGED <<h_ip, h_env, h_port, scanVars, cfgVars, dayVars, recVars, osVars, eolVars>>

\* result['hostname'] = self._resolve_hostname(ip)
ResolveHostname ==
    /\ h_pc = "resolve"
    /\ h_calls' = Append(h_calls, Call("resolve_hostname", 0, h_env.hostname # None))
    /\ h_result' = [h_result EXCEPT !.hostname = h_env.hostname]
    /\ h_pc' = "ports"
    /\ UNCHANGED <<h_ip, h_env, h_port, h_return, scanVars, cfgVars, dayVars, recVars, osVars, eolVars>>

\* one iteration of the loop over self.scan_ports: port_info = _scan_port(ip,
\* port), kept in result['open_ports'] when port_info['open']
ScanPort ==
    /\ h_pc = "ports"
    /\ h_port <= Len(ScanPorts)
    /\ LET port == ScanPorts[h_port]
           open == port \in h_env.open
       IN  /\ h_calls' = Append(h_calls, Call("scan_port", port, open))
           /\ h_result' = IF open
                          THEN [h_result EXCEPT !.open_ports =
                                   Append(@, [port |-> port, banner |-> ""])]
                          ELSE h_result
    /\ h_port' = h_port + 1
    /\ UNCHANGED <<h_ip, h_env, h_pc, h_return, scanVars, cfgVars, dayVars, recVars, osVars, eolVars>>

\* result['os_guess'], result['os_details'] = self._guess_os(result); return result
GuessAndReturn ==
    /\ h_pc = "ports"
    /\ h_port > Len(ScanPorts)
    /\ LET guess == GuessOs(h_result)
           result == [h_result EXCEPT !.os_guess = guess.os_guess,
                                      !.os_details = guess.os_details]
       IN  /\ h_result' = result
           /\ h_return' = [kind |-> "record", rec |-> result]
    /\ h_pc' = "done"
    /\ UNCHANGED <<h_ip, h_env, h_port, h_calls, scanVars, cfgVars, dayVars, recVars, osVars, eolVars>>

NextHost ==
    \/ CheckHostUp
    \/ ResolveHostname
    \/ ScanPort
    \/ GuessAndReturn

SpecHost == InitHost /\ [][NextHost]_vars

-----------------------------------------------------------------------------
(* SpecRec: _generate_recommendations applied to the report of any list of
   analysed hosts *)

\* the OS the hosts of the reports were detected as
RecOsLabels == {"VMware ESXi 6.5", "ESXi-6.5.0", "VMware ESXi 7.0", "Ubuntu 22.04",
                "Windows Server 2012 R2", "Linux", "Inconnu"}

RecDates == {Date(2024, 1, 1), Date(2026, 11, 1)}

\* the configurations of these reports: the default data, and data without
\* these OS
RecConfigs == {c \in DOMAIN Configs : c = 1 \/ Configs[c].eol_database = ConfigEolDataLater}

\* self.eol_db.check_eol_status(os_guess) for the OS of these reports
RecEolStatus == [c \in RecConfigs, today \in RecDates |->
    [os \in RecOsLabels |->
       CheckEolStatus(EolDatabase[c].eol_data, EolDatabase[c].warning_days,
                      EolDatabase[c].critical_days, os, today)]]

\* the host records of a scan that found n hosts, with the OS of labels
RecHosts(labels) ==
    [i \in DOMAIN labels |->
       [ip |-> i, is_up |-> TRUE, hostname |-> None, open_ports |-> <<>>,
        os_guess |-> labels[i], os_details |-> [confidence |-> "low"]]]

\* the lists of at most n elements of S
RECURSIVE SeqsUpTo(_, _)
SeqsUpTo(S, n) ==
    IF n = 0 THEN {<<>>}
    ELSE LET shorter == SeqsUpTo(S, n - 1)
         IN  shorter \cup {Append(q, x) : q \in shorter, x \in S}

\* the report as generate_full_report hands it to _generate_recommendations
InitRec ==
    /\ config \in RecConfigs
    /\ DayIdle
    /\ ref_date \in RecDates
    /\ \E labels \in SeqsUpTo(RecOsLabels, MaxRecHosts) :
          rec_report = AnalyzeHosts([EmptyReport EXCEPT !.summary.total_hosts = Len(labels)],
                                    RecEolStatus[config, ref_date], RecHosts(labels), 1)
    /\ rec_list = [called |-> FALSE, recs |-> <<>>]
    /\ AnalyzeIdle
    /\ ScanIdle
    /\ OsIdle
    /\ EolIdle
    /\ HostIdle

\* report['recommendations'] = self._generate_recommendations(report)
GenerateRecommendationsCall ==
    /\ ~rec_list.called
    /\ rec_list' = [called |-> TRUE, recs |-> GenerateRecommendations(rec_report)]
    /\ UNCHANGED <<rec_report, an_host, an_analysis, scanVars, cfgVars, dayVars, hostVars, osVars, eolVars>>

NextRec == GenerateRecommendationsCall

SpecRec == InitRec /\ [][NextRec]_vars

-----------------------------------------------------------------------------
(* SpecAnalyze: _analyze_host applied to one host record *)

\* host['os_guess']: a label, or None, or the empty string
AnalyzeOsGuesses == RecOsLabels \cup {None, ""}

\* self.eol_db.check_eol_status(os_guess), today's date being the reference
AnalyzeEolStatus == [c \in DOMAIN Configs, today \in RecDates |->
    [os \in RecOsLabels |->
       CheckEolStatus(EolDatabase[c].eol_data, EolDatabase[c].warning_days,
                      EolDatabase[c].critical_days, os, today)]]

InitAnalyze ==
    /\ config \in DOMAIN Configs
    /\ DayIdle
    /\ ref_date \in RecDates
    /\ \E os_guess \in AnalyzeOsGuesses :
          an_host = [ip |-> 1, is_up |-> TRUE, hostname |-> None, open_ports |-> <<>>,
                     os_guess |-> os_guess, os_details |-> [confidence |-> "low"]]
    /\ an_analysis = [called |-> FALSE]
    /\ rec_report = None
    /\ rec_list = [called |-> FALSE, recs |-> <<>>]
    /\ ScanIdle
    /\ OsIdle
    /\ EolIdle
    /\ HostIdle

\* host_analysis = self._analyze_host(host)
AnalyzeHostCall ==
    /\ ~an_analysis.called
    /\ an_analysis' = [called |-> TRUE,
                       analysis |-> AnalyzeHost(AnalyzeEolStatus[config, ref_date], an_host)]
    /\ UNCHANGED <<an_host, rec_report, rec_list, scanVars, cfgVars, dayVars, hostVars, osVars, eolVars>>

NextAnalyze == AnalyzeHostCall

SpecAnalyze == InitAnalyze /\ [][NextAnalyze]_vars

-----------------------------------------------------------------------------
(* SpecDays: check_eol_status called day after day on one record *)

\* date + timedelta(days=1)
NextDate(d) ==
    IF d.day < DaysInMonth(d.year, d.month) THEN [d EXCEPT !.day = @ + 1]
    ELSE IF d.month < 12 THEN [d EXCEPT !.month = @ + 1, !.day = 1]
    ELSE [year |-> d.year + 1, month |-> 1, day |-> 1]

\* an eol_database section of records that end on 2026-12-01: without extended
\* support, with an extended date that is the same day, the next day, five
\* days later, and three days before
DayEolData == <<
    [os |-> "WMS 1.0", eol_date |-> "2026-12-01", extended_support |-> ""],
    [os |-> "WMS 2.0", eol_date |-> "2026-12-01", extended_support |-> "2026-12-01"],
    [os |-> "WMS 3.0", eol_date |-> "2026-12-01", extended_support |-> "2026-12-02"],
    [os |-> "WMS 4.0", eol_date |-> "2026-12-01", extended_support |-> "2026-12-06"],
    [os |-> "WMS 5.0", eol_date |-> "2026-12-01", extended_support |-> "2026-11-28"] >>

\* thresholds sections whose eol_critical_days is at most eol_warning_days
DayThresholds ==
    {[eol_warning_days |-> 4, eol_critical_days |-> 2],
     [eol_warning_days |-> 3, eol_critical_days |-> 0],
     [eol_warning_days |-> 2, eol_critical_days |-> 2],
     [eol_warning_days |-> 4, eol_critical_days |-> -1],
     [eol_warning_days |-> -1, eol_critical_days |-> -2]}

\* the first reference date
DayStart == Date(2026, 11, 25)

InitDays ==
    /\ \E thresholds \in DayThresholds :
          d_db = NewEolDatabase([eol_database |-> DayEolData, thresholds |-> thresholds])
    /\ d_os \in {DayEolData[i].os : i \in DOMAIN DayEolData}
    /\ d_day = 0
    /\ d_pc = "check"
    /\ d_status = NoStatus
    /\ d_prev = NoStatus
    /\ config = 1
    /\ ref_date = DayStart
    /\ ScanIdle
    /\ OsIdle
    /\ EolIdle
    /\ HostIdle
    /\ RecIdle

\* eol_db.check_eol_status(os_name, reference_date), today's check
CheckToday ==
    /\ d_pc = "check"
    /\ d_prev' = d_status
    /\ d_status' = CheckEolStatus(d_db.eol_data, d_db.warning_days, d_db.critical_days,
                                  d_os, ref_date)
    /\ d_pc' = "checked"
    /\ UNCHANGED <<d_db, d_os, d_day, config, ref_date, scanVars, hostVars, recVars,
                   osVars, eolVars>>

\* the reference date advances by one day
DayPasses ==
    /\ d_pc = "checked"
    /\ d_day < MaxDays
    /\ ref_date' = NextDate(ref_date)
    /\ d_day' = d_day + 1
    /\ d_pc' = "check"
    /\ UNCHANGED <<d_db, d_os, d_status, d_prev, config, scanVars, hostVars, recVars,
                   osVars, eolVars>>

NextDays ==
    \/ CheckToday
    \/ DayPasses

SpecDays == InitDays /\ [][NextDays]_vars

-----------------------------------------------------------------------------
(* Properties of scan_network *)

\* the usable host addresses of a range: the addresses of the network of the
\* range other than, in a network of more than two addresses, its first and
\* its last
UsableAddresses(r) ==
    LET n == NumAddresses(r) IN
    {a \in Addresses :
        /\ a \div n = r.addr \div n
        /\ n > 2 => (a % n # 0 /\ a % n # n - 1)}

Returned == pc \in {"returned", "reported"}

HostIps == {results.hosts[i].ip : i \in DOMAIN results.hosts}

\* C1: for a valid range, results['hosts'] holds only records of usable host
\* addresses of the range, each address at most once, and never more records
\* than the range has usable addresses (total_scanned), at any moment of the
\* scan and whatever the order in which the probes complete
C1_HostsWithinRange ==
    IsValidRange(network_range) =>
        /\ \A i \in DOMAIN results.hosts :
              results.hosts[i].ip \in UsableAddresses(network_range)
        /\ \A i, j \in DOMAIN results.hosts :
              i # j => results.hosts[i].ip # results.hosts[j].ip
        /\ pc # "start" =>
              /\ results.total_scanned = Cardinality(UsableAddresses(network_range))
              /\ Len(results.hosts) <= results.total_scanned
              /\ results.hosts_up = Len(results.hosts)

\* a scan has returned two hosts, the one of the higher address first
C1_Witness ==
    /\ Returned
    /\ Len(results.hosts) = 2
    /\ results.hosts[1].ip > results.hosts[2].ip

\* C2 as claimed: a malformed range makes the call fail instead of returning a
\* scan result, and no probe is scheduled
C2_Original ==
    ~IsValidRange(network_range) =>
        /\ ~Returned
        /\ \A a \in Addresses : fut[a].st = "unsubmitted" /\ exec_count[a] = 0

\* C2 amended: for a malformed range scan_network does not fail: it reports the
\* error and returns the results dict with no host, total_scanned = 0 and
\* hosts_up = 0 (and no duration), from which generate_full_report builds an
\* empty report; no probe is ever scheduled or executed
C2_InvalidRangeReturnsEmpty ==
    ~IsValidRange(network_range) =>
        /\ \A a \in Addresses : fut[a].st = "unsubmitted" /\ exec_count[a] = 0
        /\ queue = <<>>
        /\ pc \in {"start", "returned", "reported"}
        /\ Returned =>
              /\ results.hosts = <<>>
              /\ results.total_scanned = 0
              /\ results.hosts_up = 0
              /\ "duration_seconds" \notin results.keys
              /\ output = <<"Erreur">>
        /\ pc = "reported" =>
              /\ full_report.hosts = <<>>
              /\ full_report.summary.total_hosts = 0
              /\ full_report.summary.analyzed = 0
              /\ full_report.recommendations = <<>>

\* a malformed range went all the way to a report
C2_Witness == ~IsValidRange(network_range) /\ pc = "reported"

\* the deadline the claim speaks of, in ticks of the clock: the code has none
ScanDeadline == MaxTime

\* C3 as claimed: a scan during which the deadline expired (the clock advances
\* only while probes are outstanding) returns with a truncation flag
C3_Original ==
    (Returned /\ now - start_time >= ScanDeadline) => "truncated" \in results.keys

\* C3 amended: scan_network has no deadline: however much time has passed it
\* returns only when every submitted probe has completed and has been
\* collected, its result has no truncation flag, and at every moment the host
\* list holds records of completed probes only
C3_ReturnsAfterAllProbes ==
    /\ \A i \in DOMAIN results.hosts :
          /\ fut[results.hosts[i].ip].st = "yielded"
          /\ fut[results.hosts[i].ip].res.kind = "record"
    /\ "truncated" \notin results.keys
    /\ Returned => \A a \in Addresses : fut[a].st \in {"unsubmitted", "yielded"}
    /\ (pc = "collecting" /\ \E a \in Addresses : fut[a].st \in {"pending", "running", "done"})
          => ~ENABLED ScanReturn

\* a scan returned hosts after the time of the deadline had passed
C3_Witness ==
    /\ Returned
    /\ now - start_time >= ScanDeadline
    /\ results.hosts # <<>>

\* C4: every usable address has its probe executed exactly once and its outcome
\* collected, and the scan eventually returns, after all probes have finished;
\* collecting a probe that raised changes neither the hosts collected so far
\* nor the course of the scan; a probe waiting for a free worker is not dropped
C4_EveryProbeRunsOnce ==
    /\ <>Returned
    /\ [](\A a \in Addresses : exec_count[a] <= 1)
    /\ []((Returned /\ IsValidRange(network_range)) =>
            \A a \in UsableAddresses(network_range) :
                exec_count[a] = 1 /\ fut[a].st = "yielded")
    /\ []((Returned /\ IsValidRange(network_range)) =>
            HostIps = {a \in Addresses : fut[a].res.kind = "record"})
    /\ [][\A a \in Addresses :
            (fut[a].st = "done" /\ fut'[a].st = "yielded" /\ fut[a].res.kind = "raised")
               => (results' = results /\ pc' = pc)]_vars

\* a scan of two addresses by a single worker has returned the host of one
\* address, the probe of the other address having raised
C4_Witness ==
    /\ Returned
    /\ max_threads = 1
    /\ results.total_scanned = 2
    /\ Len(results.hosts) = 1
    /\ \E a \in Addresses : fut[a].st = "yielded" /\ fut[a].res.kind = "raised"

-----------------------------------------------------------------------------
(* Properties of the recommendations of generate_full_report *)

\* the orders in which the probes of the hosts of seq can complete
CompletionOrders(seq) ==
    {p \in [DOMAIN seq -> Range(seq)] : \A i, j \in DOMAIN seq : i # j => p[i] # p[j]}

\* C5 as claimed: the recommendation sequence of a report is the one of every
\* run that discovers the same hosts with its probes completing in another order
C5_Original ==
    pc = "reported" =>
        \A hosts \in CompletionOrders(results.hosts) :
            GenerateFullReport(ReportEolStatus[config, ref_date], network_range,
                               [results EXCEPT !.hosts = hosts]).recommendations
              = full_report.recommendations

PriorityRank(priority) ==
    CASE priority = "CRITIQUE"  -> 1
      [] priority = "ATTENTION" -> 2
      [] priority = "INFO"      -> 3

\* C5 amended: the recommendations are grouped by priority (CRITIQUE, then
\* ATTENTION, then INFO) but nothing sorts them by address: the per-host
\* recommendations of one priority, and the targets of the INFO recommendation,
\* stand in the order in which the probes of their hosts completed (the order
\* of scan_results['hosts'])
C5_RecommendationsInCompletionOrder ==
    pc = "reported" =>
        LET recs == full_report.recommendations
            pos(ip) == CHOOSE i \in DOMAIN results.hosts : results.hosts[i].ip = ip
            per_host(i) == recs[i].type \in {"migration_urgente", "planifier_migration"}
        IN  /\ \A i, j \in DOMAIN recs :
                  i < j => PriorityRank(recs[i].priority) <= PriorityRank(recs[j].priority)
            /\ \A i, j \in DOMAIN recs :
                  (i < j /\ per_host(i) /\ per_host(j)
                     /\ recs[i].priority = recs[j].priority)
                    => pos(recs[i].target) < pos(recs[j].target)
            /\ \A i \in DOMAIN recs :
                  \A m, n \in DOMAIN recs[i].targets :
                      m < n => pos(recs[i].targets[m]) < pos(recs[i].targets[n])

\* a report whose two urgent recommendations stand with the higher address
\* first, the probe of that address having completed first
C5_Witness ==
    /\ pc = "reported"
    /\ Len(full_report.recommendations) = 2
    /\ full_report.recommendations[1].priority = "CRITIQUE"
    /\ full_report.recommendations[2].priority = "CRITIQUE"
    /\ full_report.recommendations[1].target > full_report.recommendations[2].target

-----------------------------------------------------------------------------
(* Properties of _guess_os *)

OpenSet == {os_evidence.open_ports[i].port : i \in DOMAIN os_evidence.open_ports}

\* the text the banner patterns are searched in
AllBanners ==
    Lower(JoinSpace([i \in DOMAIN os_evidence.open_ports |->
                        os_evidence.open_ports[i].banner]))

\* the labels some banner pattern gives the evidence
BannerLabels ==
    {BannerPatterns[k].os : k \in {k \in DOMAIN BannerPatterns :
                                      ReSearch(BannerPatterns[k].re, AllBanners)}}

Guessed == os_guessed.os_guess # NotCalled

Score(label) == ScoreGet(os_guessed.os_details.scores, label)

RdpWithoutSsh == 3389 \in OpenSet /\ 22 \notin OpenSet

SshWithoutRdp == 22 \in OpenSet /\ 3389 \notin OpenSet

\* C6 as claimed: with RDP open and SSH not, the label is 'Windows' and the
\* Windows score is at least 3, whatever the other ports and the banners
C6_Original ==
    (Guessed /\ RdpWithoutSsh) =>
        /\ os_guessed.os_guess = "Windows"
        /\ Score("Windows") >= 3

\* C6 amended: with RDP open and SSH not, the Windows score is at least 3, and
\* the label is 'Windows' unless a banner pattern gives another label a score
\* strictly higher than the Windows score, in which case the label is such a
\* label of the highest score
C6_WindowsUnlessBannerOutscores ==
    (Guessed /\ RdpWithoutSsh) =>
        LET higher == {l \in BannerLabels : Score(l) > Score("Windows")}
        IN  /\ Score("Windows") >= 3
            /\ higher = {} => os_guessed.os_guess = "Windows"
            /\ higher # {} =>
                  /\ os_guessed.os_guess \in higher
                  /\ \A l \in higher : Score(l) <= Score(os_guessed.os_guess)

\* RDP and HTTP are open, SSH is not, the web server names Ubuntu: the label is
\* Ubuntu, of score 4, above the Windows score of 3
C6_Witness ==
    /\ Guessed
    /\ RdpWithoutSsh
    /\ os_guessed.os_guess = "Ubuntu"
    /\ Score("Ubuntu") = 4
    /\ Score("Windows") = 3

\* C7 as claimed: with SSH open and RDP not, the Linux score is at least 2 and
\* the label is 'Linux' unless a banner pattern gives another label a strictly
\* higher score; with no banner matching any pattern the label is 'Linux'
\* whatever the other open ports
C7_Original ==
    (Guessed /\ SshWithoutRdp) =>
        /\ Score("Linux") >= 2
        /\ \/ os_guessed.os_guess = "Linux"
           \/ \E l \in BannerLabels : Score(l) > Score("Linux")
        /\ BannerLabels = {} => os_guessed.os_guess = "Linux"

\* the Windows port rule: 135 open, or 445 and 139 open
WindowsPorts == 135 \in OpenSet \/ (445 \in OpenSet /\ 139 \in OpenSet)

\* the VMware port rule (with SSH open and RDP not): 902 or 443 open
VmwarePorts == 902 \in OpenSet \/ 443 \in OpenSet

\* C7 amended: with SSH open and RDP not, the Linux score is exactly 2, and the
\* label is 'Linux' exactly when no banner pattern matches and neither the
\* Windows port rule (135, or 445 with 139: Windows 2, which wins the tie) nor
\* the VMware port rule (902 or 443: VMware ESXi 3) applies; with no banner
\* match the label is 'VMware ESXi' when the VMware rule applies and 'Windows'
\* when only the Windows rule does
C7_LinuxUnlessOtherRule ==
    (Guessed /\ SshWithoutRdp) =>
        /\ Score("Linux") = 2
        /\ os_guessed.os_guess = "Linux"
              <=> (BannerLabels = {} /\ ~WindowsPorts /\ ~VmwarePorts)
        /\ (BannerLabels = {} /\ VmwarePorts) => os_guessed.os_guess = "VMware ESXi"
        /\ (BannerLabels = {} /\ WindowsPorts /\ ~VmwarePorts)
              => os_guessed.os_guess = "Windows"

\* SSH and the RPC port 135 are open, RDP is not, no banner matches: the label
\* is Windows, of the same score 2 as Linux
C7_Witness ==
    /\ Guessed
    /\ SshWithoutRdp
    /\ BannerLabels = {}
    /\ 135 \in OpenSet
    /\ os_guessed.os_guess = "Windows"
    /\ Score("Windows") = 2
    /\ Score("Linux") = 2

-----------------------------------------------------------------------------
(* Properties of normalize_os_name and check_eol_status *)

Normalized == q_normalized # NotCalled

\* the rules whose pattern matches the lowercased input
MatchingRules ==
    {k \in DOMAIN OS_PATTERNS : ReSearch(OS_PATTERNS[k].re, Lower(q_os_name))}

IsProperPrefix(a, b) == Len(a) < Len(b) /\ SubSeq(b, 1, Len(a)) = a

\* the pairs of rules (i, j) of which i names a more specific version than j:
\* the canonical name of j is the beginning of the canonical name of i
MoreSpecific ==
    {pair \in (DOMAIN OS_PATTERNS) \X (DOMAIN OS_PATTERNS) :
        IsProperPrefix(OS_PATTERNS[pair[2]].os, OS_PATTERNS[pair[1]].os)}

\* C8: normalize_os_name returns the canonical name of the first rule, in the
\* order of the table, whose pattern matches the lowercased input, and None
\* when no rule matches; in the table every rule of a more specific version
\* stands before the rule of the less specific one, and an input the more
\* specific rule matches is never given the less specific name;
\* 'Windows Server 2012 R2 Datacenter' gives 'Windows Server 2012 R2' and
\* 'Ubuntu 22.04.3 LTS' gives 'Ubuntu 22.04'
C8_FirstMatchingRule ==
    Normalized =>
        LET matching == MatchingRules IN
        /\ matching = {} => q_normalized = None
        /\ matching # {} =>
              \E k \in matching :
                  /\ \A j \in matching : k <= j
                  /\ q_normalized = OS_PATTERNS[k].os
        /\ MoreSpecific # {}
        /\ \A pair \in MoreSpecific :
              /\ pair[1] < pair[2]
              /\ pair[1] \in matching => q_normalized # OS_PATTERNS[pair[2]].os
        /\ q_os_name = "Windows Server 2012 R2 Datacenter"
              => q_normalized = "Windows Server 2012 R2"
        /\ q_os_name = "Ubuntu 22.04.3 LTS" => q_normalized = "Ubuntu 22.04"

\* 'Windows Server 2012 R2 Datacenter' was normalized
C8_Witness ==
    /\ q_os_name = "Windows Server 2012 R2 Datacenter"
    /\ q_normalized = "Windows Server 2012 R2"

Checked == q_status.status # NotCalled

\* the record of the database the status was computed from
EolInfo == GetEolInfo(EolDatabase[config].eol_data, q_os_name)

\* end_of_support_date - reference_date, in days
Delta == DaysBetween(EolInfo.eol_date, ref_date)

HasEolDate == EolInfo # NoInfo /\ EolInfo.eol_date # NoDate

\* C9: for a record with an end-of-support date at delta >= 0 days from the
\* reference date, the status is critical_soon/critical when delta <=
\* critical_days, else warning_soon/warning when delta <= warning_days, else
\* supported/ok, and days_until_eol = delta; with the default thresholds
\* 'Ubuntu 22.04' is supported on 2026-01-01 (455 days) and warning_soon on
\* 2026-11-01 (151 days)
C9_UpcomingEndOfSupport ==
    /\ (Checked /\ HasEolDate /\ Delta >= 0) =>
          LET critical_days == EolDatabase[config].critical_days
              warning_days  == EolDatabase[config].warning_days
          IN  /\ q_status.days_until_eol = Delta
              /\ q_status.days_since_eol = NoDays
              /\ Delta <= critical_days =>
                    (q_status.status = "critical_soon" /\ q_status.criticality = "critical")
              /\ (critical_days < Delta /\ Delta <= warning_days) =>
                    (q_status.status = "warning_soon" /\ q_status.criticality = "warning")
              /\ (critical_days < Delta /\ warning_days < Delta) =>
                    (q_status.status = "supported" /\ q_status.criticality = "ok")
    /\ (Checked /\ config = 1 /\ q_os_name = "Ubuntu 22.04") =>
          /\ EolDatabase[config].critical_days = 30
          /\ EolDatabase[config].warning_days = 180
          /\ ref_date = Date(2026, 1, 1) =>
                (q_status.status = "supported" /\ q_status.days_until_eol = 455)
          /\ ref_date = Date(2026, 11, 1) =>
                (q_status.status = "warning_soon" /\ q_status.days_until_eol = 151)
          /\ ref_date = Date(2027, 4, 1) =>
                (q_status.status = "critical_soon" /\ q_status.days_until_eol = 0)

\* a status computed exactly critical_days before the end of support: it is
\* critical_soon
C9_Witness ==
    /\ Checked
    /\ HasEolDate
    /\ Delta = EolDatabase[config].critical_days
    /\ q_status.status = "critical_soon"

\* a date is strictly before another, by year, month and day
DateBefore(a, b) ==
    \/ a.year < b.year
    \/ a.year = b.year /\ a.month < b.month
    \/ a.year = b.year /\ a.month = b.month /\ a.day < b.day

\* C10: for a record whose end-of-support date is strictly before the
\* reference date, the status is extended_support/warning exactly when the
\* record has an extended-support date and the reference date is strictly
\* before it, and end_of_life/critical otherwise; days_since_eol is the number
\* of days elapsed since the end-of-support date
C10_PastEndOfSupport ==
    (Checked /\ HasEolDate /\ DateBefore(EolInfo.eol_date, ref_date)) =>
        LET extended == /\ EolInfo.extended_support # NoDate
                        /\ DateBefore(ref_date, EolInfo.extended_support)
        IN  /\ extended =>
                  (q_status.status = "extended_support" /\ q_status.criticality = "warning")
            /\ ~extended =>
                  (q_status.status = "end_of_life" /\ q_status.criticality = "critical")
            /\ q_status.days_since_eol = DateOrd(ref_date) - DateOrd(EolInfo.eol_date)
            /\ q_status.days_since_eol > 0
            /\ q_status.days_until_eol = NoDays

\* a status computed on the very day the extended support ends, years after the
\* end of the standard support: it is end_of_life
C10_Witness ==
    /\ Checked
    /\ HasEolDate
    /\ EolInfo.extended_support = ref_date
    /\ DateBefore(EolInfo.eol_date, ref_date)
    /\ q_status.status = "end_of_life"

-----------------------------------------------------------------------------
(* Properties of check_eol_status: records without a date, the default data,
   invalid thresholds *)

\* C11: check_eol_status returns a status dict for every OS string, and for a
\* string that has no record in the database, or whose
\* record has no end-of-support date, the result has status unknown,
\* criticality unknown and neither days_until_eol nor days_since_eol; an entry
\* of the configuration whose eol_date strptime rejects ('30/06/2026') or lacks
\* ('') is loaded as a record without a date
C11_UnknownWithoutDate ==
    /\ Checked =>
          /\ q_status.status \in {"unknown", "supported", "warning_soon", "critical_soon",
                                  "extended_support", "end_of_life"}
          /\ q_status.os_original = q_os_name
    /\ (Checked /\ ~HasEolDate) =>
          /\ q_status.status = "unknown"
          /\ q_status.criticality = "unknown"
          /\ q_status.days_until_eol = NoDays
          /\ q_status.days_since_eol = NoDays
    /\ (config = 3 /\ q_os_name \in {"Debian", "CentOS"}) =>
          /\ EolInfo.name = q_os_name
          /\ EolInfo.eol_date = NoDate
          /\ EolInfo.extended_support # NoDate
          /\ Checked => (q_status.os_normalized = q_os_name /\ q_status.eol_date = None)

\* the status of 'Debian' under the configuration whose entry 'Debian' has the
\* date '30/06/2026': the record is found, its date is not
C11_Witness ==
    /\ Checked
    /\ config = 3
    /\ q_os_name = "Debian"
    /\ q_status.os_normalized = "Debian"
    /\ q_status.status = "unknown"

\* the status of 'VMware ESXi 6.5' on 2024-01-01 with the default data
Esxi65In2024 ==
    /\ Checked
    /\ config = 1
    /\ q_os_name = "VMware ESXi 6.5"
    /\ ref_date = Date(2024, 1, 1)

\* C12 as stated: with the default data, 'VMware ESXi 6.5' on 2024-01-01 is
\* critical and end_of_life with days_since_eol = 442
C12_Original ==
    Esxi65In2024 =>
        /\ q_status.criticality = "critical"
        /\ q_status.status = "end_of_life"
        /\ q_status.days_since_eol = 442

\* C12, amended: with the default data (end of support 2022-10-15, extended
\* date equal to it), 'VMware ESXi 6.5' on 2024-01-01 is critical and
\* end_of_life with days_since_eol = 443, the number of days from 2022-10-15
\* to 2024-01-01
C12_Esxi65EndOfLife ==
    Esxi65In2024 =>
        /\ q_status.criticality = "critical"
        /\ q_status.status = "end_of_life"
        /\ q_status.eol_date = "2022-10-15"
        /\ q_status.extended_support = "2022-10-15"
        /\ q_status.days_since_eol = 443
        /\ q_status.days_until_eol = NoDays

C12_Witness ==
    /\ Esxi65In2024
    /\ q_status.os_normalized = "VMware ESXi 6.5"
    /\ q_status.status = "end_of_life"

\* C13: check_eol_status is a function of the OS string, the reference date,
\* the thresholds and the data loaded at construction: a second call with the
\* same arguments returns the same dict as the first; no sequence of
\* normalize_os_name, get_eol_info and check_eol_status calls changes
\* eol_data; the dict get_eol_info returns is a copy, so that a caller that
\* changes it changes neither eol_data nor what later calls return
C13_PureStatus ==
    /\ eol_data = EolDatabase[config].eol_data
    /\ Checked =>
          q_status = CheckEolStatus(EolDatabase[config].eol_data,
                                    EolDatabase[config].warning_days,
                                    EolDatabase[config].critical_days,
                                    q_os_name, ref_date)
    /\ q_again.status # NotCalled => q_again = q_status
    /\ q_normalized # NotCalled => q_normalized = NormalizeOsName(q_os_name)

\* the caller has erased the end-of-support date of the dict it was given for
\* 'Ubuntu 22.04.3 LTS', and two status calls have still found the date
C13_Witness ==
    /\ q_os_name = "Ubuntu 22.04.3 LTS"
    /\ config = 1
    /\ q_info.name = "Ubuntu 22.04"
    /\ q_info.eol_date = NoDate
    /\ q_again.status # NotCalled
    /\ q_again.eol_date = "2027-04-01"
    /\ q_again = q_status

\* thresholds that make no sense: a negative one, or a critical threshold
\* greater than the warning threshold
InvalidThresholds ==
    LET t == Configs[config].thresholds
    IN  \/ t.eol_critical_days > t.eol_warning_days
        \/ t.eol_critical_days < 0
        \/ t.eol_warning_days < 0

\* C14 as stated: no status is computed with invalid thresholds
C14_Original == InvalidThresholds => ~Checked

\* C14, amended: the thresholds are not validated, neither when the database
\* is constructed nor when a status is asked for: the database takes
\* eol_warning_days and eol_critical_days as the configuration gives them and
\* check_eol_status compares with them as they are; with eol_critical_days
\* greater than eol_warning_days no status is warning_soon, with a negative
\* eol_critical_days no status is critical_soon
C14_ThresholdsTakenAsGiven ==
    LET t == Configs[config].thresholds IN
    /\ EolDatabase[config].warning_days = t.eol_warning_days
    /\ EolDatabase[config].critical_days = t.eol_critical_days
    /\ (Checked /\ HasEolDate /\ Delta >= 0) =>
          /\ q_status.status = "critical_soon" <=> Delta <= t.eol_critical_days
          /\ q_status.status = "warning_soon" <=>
                (t.eol_critical_days < Delta /\ Delta <= t.eol_warning_days)
          /\ q_status.status = "supported" <=>
                (t.eol_critical_days < Delta /\ t.eol_warning_days < Delta)
    /\ (Checked /\ t.eol_critical_days > t.eol_warning_days) =>
          q_status.status # "warning_soon"
    /\ (Checked /\ t.eol_critical_days < 0) => q_status.status # "critical_soon"

\* with eol_warning_days = 30 and eol_critical_days = 180, 'Ubuntu 22.04' is
\* critical_soon 151 days before its end of support
C14_Witness ==
    /\ Checked
    /\ InvalidThresholds
    /\ Configs[config].thresholds.eol_critical_days = 180
    /\ q_os_name = "Ubuntu 22.04"
    /\ q_status.days_until_eol = 151
    /\ q_status.status = "critical_soon"

-----------------------------------------------------------------------------
(* Properties of _generate_recommendations *)

\* the list _generate_recommendations returned
Recs == rec_list.recs

\* the positions of the entries of a priority that target an address
EntriesFor(priority, ip) ==
    {i \in DOMAIN Recs : Recs[i].priority = priority /\ Recs[i].target = ip}

InfoEntries == {i \in DOMAIN Recs : Recs[i].priority = "INFO"}

\* C15: in the list _generate_recommendations returns, every CRITIQUE entry
\* precedes every ATTENTION entry and every ATTENTION entry precedes the INFO
\* entry; each host of by_criticality['critical'] has one CRITIQUE entry, each
\* host of by_criticality['warning'] has one ATTENTION entry; there is an INFO
\* entry exactly when by_criticality['unknown'] is not empty, there is then
\* one only, it is the last entry and it lists all the unknown hosts
C15_RecommendationsByPriority ==
    rec_list.called =>
        LET critical_hosts == rec_report.by_criticality.critical
            warning_hosts  == rec_report.by_criticality.warning
            unknown_hosts  == rec_report.by_criticality.unknown
        IN  /\ \A i, j \in DOMAIN Recs :
                  PriorityRank(Recs[i].priority) < PriorityRank(Recs[j].priority) => i < j
            /\ \A k \in DOMAIN critical_hosts :
                  Cardinality(EntriesFor("CRITIQUE", critical_hosts[k].ip)) = 1
            /\ \A k \in DOMAIN warning_hosts :
                  Cardinality(EntriesFor("ATTENTION", warning_hosts[k].ip)) = 1
            /\ \A i \in DOMAIN Recs :
                  /\ Recs[i].type = "migration_urgente" =>
                        \E k \in DOMAIN critical_hosts : critical_hosts[k].ip = Recs[i].target
                  /\ Recs[i].priority = "ATTENTION" =>
                        \E k \in DOMAIN warning_hosts : warning_hosts[k].ip = Recs[i].target
            /\ (InfoEntries # {}) <=> (unknown_hosts # <<>>)
            /\ InfoEntries \subseteq {Len(Recs)}
            /\ \A i \in InfoEntries :
                  Recs[i].targets = [k \in DOMAIN unknown_hosts |-> unknown_hosts[k].ip]
            /\ \A k \in DOMAIN rec_report.hosts :
                  LET host == rec_report.hosts[k] IN
                  (host.eol_status.criticality = "unknown") <=>
                     (\E i \in InfoEntries : \E m \in DOMAIN Recs[i].targets :
                         Recs[i].targets[m] = host.ip)

\* the recommendations of a report with a critical, a warning and an unknown
\* host
C15_Witness ==
    /\ rec_list.called
    /\ Len(rec_report.by_criticality.critical) = 1
    /\ Len(rec_report.by_criticality.warning) = 1
    /\ Len(rec_report.by_criticality.unknown) = 1
    /\ Len(Recs) = 3
    /\ Recs[3].priority = "INFO"

\* os_detected is an ESXi 6.5
IsEsxi65(os_detected) ==
    Contains(Lower(os_detected), "esxi") /\ Contains(Lower(os_detected), "6.5")

\* the positions in report['hosts'] of the ESXi 6.5 hosts
Esxi65Hosts == {k \in DOMAIN rec_report.hosts : IsEsxi65(rec_report.hosts[k].os_detected)}

\* those that no recommendation of a critical or of a warning host targets
UncoveredEsxi65Hosts ==
    {k \in Esxi65Hosts :
        rec_report.hosts[k].eol_status.criticality \notin {"critical", "warning"}}

\* C16 as stated: when the report has an ESXi 6.5 host, the entry at index 0
\* is a dedicated ESXi 6.5 entry for such a host, covered already or not
C16_Original ==
    (rec_list.called /\ Esxi65Hosts # {}) =>
        /\ Recs # <<>>
        /\ Recs[1].type = "esxi_obsolete"
        /\ Recs[1].priority = "CRITIQUE"
        /\ \E k \in Esxi65Hosts : rec_report.hosts[k].ip = Recs[1].target

\* C16, amended: the dedicated CRITIQUE entry (type esxi_obsolete) is made
\* only for an ESXi 6.5 host that no recommendation targets yet, that is one
\* whose criticality is neither critical nor warning; each such host has one,
\* these entries stand before all the others, the one of the last such host
\* of report['hosts'] at index 0; an ESXi 6.5 host that has its ordinary
\* CRITIQUE or ATTENTION entry has no dedicated entry, and when every ESXi 6.5
\* host is covered no entry of the list is a dedicated one
C16_Esxi65EntryWhenUncovered ==
    rec_list.called =>
        LET n == Cardinality(UncoveredEsxi65Hosts)
            \* the uncovered hosts that follow host k in report['hosts']
            after(k) == Cardinality({m \in UncoveredEsxi65Hosts : m > k})
        IN  /\ \A i \in DOMAIN Recs : (Recs[i].type = "esxi_obsolete") <=> (i <= n)
            /\ \A k \in UncoveredEsxi65Hosts :
                  /\ Recs[after(k) + 1].target = rec_report.hosts[k].ip
                  /\ Recs[after(k) + 1].priority = "CRITIQUE"
                  /\ Recs[after(k) + 1].current_os = "VMware ESXi 6.5"
            /\ \A k \in Esxi65Hosts \ UncoveredEsxi65Hosts :
                  LET mine == {i \in DOMAIN Recs : /\ Recs[i].priority # "INFO"
                                                    /\ Recs[i].target = rec_report.hosts[k].ip}
                  IN  /\ Cardinality(mine) = 1
                      /\ \A i \in mine :
                            Recs[i].type \in {"migration_urgente", "planifier_migration"}

\* a report with an ESXi 6.5 host that is critical and one that is unknown:
\* the second has the dedicated entry, at index 0, the first its ordinary one
C16_Witness ==
    /\ rec_list.called
    /\ Cardinality(Esxi65Hosts) >= 1
    /\ Cardinality(UncoveredEsxi65Hosts) = 1
    /\ Len(rec_report.by_criticality.critical) >= 1
    /\ Recs[1].type = "esxi_obsolete"
    /\ Recs[2].type = "migration_urgente"

-----------------------------------------------------------------------------
(* Properties of the report and of the pool of workers *)

\* the positions in the list bucket of the hosts of address ip
InBucket(bucket, ip) == {k \in DOMAIN bucket : bucket[k].ip = ip}

\* the key of by_criticality for a criticality
BucketOf(criticality) ==
    IF criticality \in {"critical", "warning", "ok"} THEN criticality ELSE "unknown"

\* C17: the scanner's hosts_up is at every moment the length of its hosts
\* list; in the report generate_full_report returns, summary.analyzed is the
\* number of entries of report.hosts and is summary.total_hosts;
\* critical + warning + supported + unknown = analyzed, each count being the
\* length of its list of by_criticality; each host is in exactly one list of
\* by_criticality, the one of the criticality of its eol_status
C17_ReportCounts ==
    /\ results.hosts_up = Len(results.hosts)
    /\ pc = "reported" =>
          LET summary == full_report.summary
              by_criticality == full_report.by_criticality
          IN  /\ summary.analyzed = Len(full_report.hosts)
              /\ summary.analyzed = summary.total_hosts
              /\ summary.total_hosts = results.hosts_up
              /\ summary.critical + summary.warning + summary.supported + summary.unknown
                    = summary.analyzed
              /\ summary.critical = Len(by_criticality.critical)
              /\ summary.warning = Len(by_criticality.warning)
              /\ summary.supported = Len(by_criticality.ok)
              /\ summary.unknown = Len(by_criticality.unknown)
              /\ \A k \in DOMAIN full_report.hosts :
                    LET host == full_report.hosts[k] IN
                    \A key \in DOMAIN by_criticality :
                        Cardinality(InBucket(by_criticality[key], host.ip))
                          = IF key = BucketOf(host.eol_status.criticality) THEN 1 ELSE 0
              /\ \A key \in DOMAIN by_criticality :
                    \A k \in DOMAIN by_criticality[key] :
                        \E m \in DOMAIN full_report.hosts :
                            full_report.hosts[m] = by_criticality[key][k]

\* the report of a scan that found two hosts, one in warning, the other ok
C17_Witness ==
    /\ pc = "reported"
    /\ results.hosts_up = 2
    /\ full_report.summary.analyzed = 2
    /\ full_report.summary.warning = 1
    /\ full_report.summary.supported = 1

\* C18: at every moment of a scan at most max_threads probes are executing
\* (max_threads is the configured value, 50 when none is configured); a probe
\* starts only when fewer than max_threads are executing, and it is then the
\* one at the head of the queue, the others stay queued
C18_BoundedConcurrency ==
    /\ [](/\ Cardinality(Running) <= max_threads
          /\ max_threads \in (1 .. MaxThreads) \cup {50}
          /\ \A a \in Range(queue) : fut[a].st = "pending")
    /\ [][\A a \in Addresses :
            (fut[a].st # "running" /\ fut'[a].st = "running") =>
                /\ Cardinality(Running) < max_threads
                /\ queue # <<>>
                /\ a = Head(queue)
                /\ queue' = Tail(queue)]_vars

\* every worker of the pool is busy and a probe waits in the queue
C18_Witness ==
    /\ pc = "collecting"
    /\ Cardinality(Running) = max_threads
    /\ queue # <<>>

\* a step of a worker thread: a probe starts, or a probe ends
WorkerStep ==
    \E a \in Addresses :
        \/ fut[a].st = "pending" /\ fut'[a].st = "running"
        \/ fut[a].st = "running" /\ fut'[a].st = "done"

\* a step of the as_completed loop of the calling thread on the future of a
CollectorStep(a) == fut[a].st = "done" /\ fut'[a].st = "yielded"

\* C19: during a scan no step of a worker writes the results dict; the hosts
\* list and hosts_up change only in a step of the as_completed loop of the
\* calling thread, by the append of the one record that step was given; the
\* record a worker hands over is the record of its own address; a record does
\* not change once its future is done, nor once it is in the hosts list
C19_SingleWriter ==
    /\ [](\A a \in Addresses :
             (fut[a].st \in {"done", "yielded"} /\ fut[a].res.kind = "record")
                => fut[a].res.rec.ip = a)
    /\ [][/\ WorkerStep => results' = results
          /\ (results'.hosts # results.hosts \/ results'.hosts_up # results.hosts_up) =>
                /\ pc = "collecting"
                /\ \E a \in Addresses :
                      /\ CollectorStep(a)
                      /\ \A b \in Addresses \ {a} : fut'[b] = fut[b]
                      /\ fut[a].res.kind = "record"
                      /\ results'.hosts = Append(results.hosts, fut[a].res.rec)
                      /\ results'.hosts_up = results.hosts_up + 1
          /\ \A a \in Addresses :
                fut[a].st \in {"done", "yielded"} => fut'[a].res = fut[a].res
          /\ \A i \in DOMAIN results.hosts :
                i \in DOMAIN results'.hosts /\ results'.hosts[i] = results.hosts[i]]_vars

\* a record is in the hosts list while a worker is still probing another
\* address
C19_Witness ==
    /\ pc = "collecting"
    /\ Len(results.hosts) = 1
    /\ Running # {}
    /\ \A a \in Running : a # results.hosts[1].ip

\* the positions of h_calls where _scan_host probes a port or resolves the name
HostProbes == {i \in DOMAIN h_calls : h_calls[i].fn \in {"scan_port", "resolve_hostname"}}

\* the positions of h_calls where _is_host_up returned True
LiveAnswers == {i \in DOMAIN h_calls : h_calls[i].fn = "is_host_up" /\ h_calls[i].found}

\* the ports a sequence of open-port entries holds
PortsOf(open_ports) == {open_ports[i].port : i \in DOMAIN open_ports}

\* C20: _scan_host probes no port and resolves no name unless the liveness
\* check has first returned true; for a host that fails the liveness check it
\* returns None at once, having done neither; a record is returned only for a
\* host that is alive, and its open ports are exactly the probed ports found
\* open, each entered once
C20_ProbesOnlyAliveHosts ==
    /\ \A i \in HostProbes : \E j \in LiveAnswers : j < i
    /\ (h_calls # <<>> /\ LiveAnswers = {}) =>
          /\ h_pc = "done"
          /\ h_return = [kind |-> "none"]
          /\ HostProbes = {}
          /\ h_result = NoResult
    /\ h_return.kind = "record" =>
          /\ LiveAnswers # {}
          /\ h_return.rec.is_up
          /\ h_return.rec.ip = h_ip
          /\ PortsOf(h_return.rec.open_ports)
               = {h_calls[i].port : i \in {k \in DOMAIN h_calls :
                       h_calls[k].fn = "scan_port" /\ h_calls[k].found}}
          /\ PortsOf(h_return.rec.open_ports) = Range(ScanPorts) \cap h_env.open
          /\ Cardinality(PortsOf(h_return.rec.open_ports)) = Len(h_return.rec.open_ports)
    /\ h_return.kind = "none" => ~IsHostUp(h_env)
    /\ h_result.is_up => PortsOf(h_result.open_ports) \subseteq h_env.open

\* _scan_host has returned the record of a host that is alive, with an open
\* port in it and a probed port left out because it was closed
C20_Witness ==
    /\ h_pc = "done"
    /\ h_return.kind = "record"
    /\ h_return.rec.open_ports # <<>>
    /\ \E i \in DOMAIN h_calls : h_calls[i].fn = "scan_port" /\ ~h_calls[i].found

\* the positions of h_calls where _is_host_up connected to a port itself
QuickChecks == {i \in DOMAIN h_calls : h_calls[i].fn = "check_port_quick"}

\* C21: whenever the echo is unavailable or fails (it raises, times out, or
\* reports the host unreachable), _is_host_up falls back to connecting to ports
\* 445 and 22, and the host is alive if either connection succeeds
C21_Original ==
    (h_calls # <<>> /\ h_env.ping # "reply") =>
        /\ \E i \in QuickChecks : h_calls[i].port = 445
        /\ \A i \in DOMAIN h_calls :
              h_calls[i].fn = "is_host_up" =>
                 h_calls[i].found = (445 \in h_env.open \/ 22 \in h_env.open)

-----------------------------------------------------------------------------
(* Properties of the confidence, the ties and the rules of _guess_os *)

\* the score map _guess_os returned
ScoreMap == os_guessed.os_details.scores

\* _guess_os returned the label of a score map that is not empty
GuessedWithScores == Guessed /\ os_guessed.os_guess # "Inconnu"

\* C22: whenever a label is scored, the score of the label _guess_os returns is
\* the maximum of the score map, and the confidence is a monotonic function of
\* that score alone: high from 5, medium from 3 to 4, low below 3
C22_ConfidenceOfWinningScore ==
    GuessedWithScores =>
        LET best_score == Score(os_guessed.os_guess)
            confidence == os_guessed.os_details.confidence
        IN  /\ ScoreMap # <<>>
            /\ os_guessed.os_guess \in ScoreKeys(ScoreMap)
            /\ \A i \in DOMAIN ScoreMap : ScoreMap[i].score <= best_score
            /\ best_score >= 5 => confidence = "high"
            /\ (best_score >= 3 /\ best_score < 5) => confidence = "medium"
            /\ best_score < 3 => confidence = "low"

\* Windows wins with exactly 5 (RDP and the Windows ports), above another
\* scored label, and the confidence is high
C22_Witness ==
    /\ GuessedWithScores
    /\ Score(os_guessed.os_guess) = 5
    /\ os_guessed.os_details.confidence = "high"
    /\ \E i \in DOMAIN ScoreMap : ScoreMap[i].score < 5

\* the labels in the order their first rule is evaluated: the port rules
\* (Windows, Linux, VMware ESXi), then the banner patterns in table order
RuleOrder == <<"Windows", "Linux", "VMware ESXi">>
                 \o [k \in DOMAIN BannerPatterns |-> BannerPatterns[k].os]

\* whether the port rule of a label applies to the evidence
PortRuleApplies(label) ==
    \/ label = "Windows" /\ (3389 \in OpenSet \/ 135 \in OpenSet
                               \/ (445 \in OpenSet /\ 139 \in OpenSet))
    \/ label = "Linux" /\ SshWithoutRdp
    \/ label = "VMware ESXi" /\ SshWithoutRdp /\ (902 \in OpenSet \/ 443 \in OpenSet)

\* the position in RuleOrder of the first rule that scores the label
FirstRule(label) ==
    LET fired == {r \in DOMAIN RuleOrder :
                     /\ RuleOrder[r] = label
                     /\ IF r <= 3 THEN PortRuleApplies(label)
                        ELSE ReSearch(BannerPatterns[r - 3].re, AllBanners)}
    IN  CHOOSE r \in fired : \A q \in fired : r <= q

\* the labels of the highest score
TopLabels ==
    {l \in ScoreKeys(ScoreMap) : \A i \in DOMAIN ScoreMap : ScoreMap[i].score <= Score(l)}

\* C23: when several labels share the highest score, _guess_os returns the one
\* whose rule was evaluated first in the fixed order (the port rules Windows,
\* Linux, VMware ESXi, then the banner patterns in table order); with ports 22
\* and 135 open and no banner, Windows (2) wins over Linux (2)
C23_FirstEvaluatedWinsTies ==
    GuessedWithScores =>
        /\ os_guessed.os_guess \in TopLabels
        /\ \A l \in TopLabels : FirstRule(os_guessed.os_guess) <= FirstRule(l)
        /\ (OpenSet = {22, 135} /\ BannerLabels = {}) =>
              /\ os_guessed.os_guess = "Windows"
              /\ Score("Windows") = 2
              /\ Score("Linux") = 2

\* two banner labels and no other share the highest score, and the label is
\* the one whose pattern comes first in the table
C23_Witness ==
    /\ GuessedWithScores
    /\ Cardinality(TopLabels) >= 2
    /\ os_guessed.os_guess = "Ubuntu"
    /\ "Linux/Unix" \in TopLabels

\* no open port of the evidence has a banner
NoBanner == \A i \in DOMAIN os_evidence.open_ports : os_evidence.open_ports[i].banner = ""

\* the score map as a set of (label, score) pairs
ScorePairs == {<<ScoreMap[i].os, ScoreMap[i].score>> : i \in DOMAIN ScoreMap}

\* the (label, score) pairs of the port rules, the second Windows rule applying
\* when windows_ports holds
PortScorePairs(windows_ports) ==
    LET windows == (IF 3389 \in OpenSet THEN 3 ELSE 0) + (IF windows_ports THEN 2 ELSE 0)
        linux   == IF SshWithoutRdp THEN 2 ELSE 0
        vmware  == IF (443 \in OpenSet \/ 902 \in OpenSet) /\ SshWithoutRdp THEN 3 ELSE 0
    IN  {p \in {<<"Windows", windows>>, <<"Linux", linux>>, <<"VMware ESXi", vmware>>} :
            p[2] > 0}

\* C24 as claimed: with no banner, the score map is that of the four port
\* rules, Windows +2 applying iff 135, 139 and 445 are open together
C24_Original ==
    (Guessed /\ NoBanner) =>
        /\ os_guessed.os_details.scores # <<>> =>
              ScorePairs = PortScorePairs(135 \in OpenSet /\ 139 \in OpenSet /\ 445 \in OpenSet)
        /\ os_guessed.os_details.scores = <<>> =>
              PortScorePairs(135 \in OpenSet /\ 139 \in OpenSet /\ 445 \in OpenSet) = {}

\* C24 amended: with no banner, the score map is that of the four port rules:
\* Windows +3 iff 3389 is open; Windows +2 iff 135 is open, or 445 and 139 are
\* both open; Linux +2 iff 22 is open and 3389 is not; VMware ESXi +3 iff 443 or
\* 902 is open, 22 is open and 3389 is not; no other label is scored
C24_PortRuleScores ==
    (Guessed /\ NoBanner) =>
        /\ os_guessed.os_details.scores # <<>> => ScorePairs = PortScorePairs(WindowsPorts)
        /\ os_guessed.os_details.scores = <<>> => PortScorePairs(WindowsPorts) = {}
        /\ Len(os_guessed.os_details.scores) = Cardinality(PortScorePairs(WindowsPorts))

\* no banner, port 135 open without 139 and 445: Windows is scored 2
C24_Witness ==
    /\ Guessed
    /\ NoBanner
    /\ 135 \in OpenSet
    /\ 139 \notin OpenSet
    /\ 445 \notin OpenSet
    /\ 3389 \notin OpenSet
    /\ Score("Windows") = 2

\* the banners of the open ports, in the order of the scan
Banners == [i \in DOMAIN os_evidence.open_ports |-> os_evidence.open_ports[i].banner]

\* the (pattern, banner) pairs of which the banner alone matches the pattern
BannerMatches ==
    {m \in (DOMAIN BannerPatterns) \X (DOMAIN Banners) :
        ReSearch(BannerPatterns[m[1]].re, Lower(Banners[m[2]]))}

\* the patterns found in the text of all the banners joined by spaces
JoinedMatches ==
    {k \in DOMAIN BannerPatterns : ReSearch(BannerPatterns[k].re, AllBanners)}

\* how many indicators the pattern k left
IndicatorCount(k) ==
    Cardinality({i \in DOMAIN os_guessed.os_details.indicators :
                    os_guessed.os_details.indicators[i] = BannerPatterns[k].src})

\* what the port rules give a label, pairs being their (label, score) pairs
PortScore(pairs, label) ==
    IF \E p \in pairs : p[1] = label
    THEN (CHOOSE p \in pairs : p[1] = label)[2]
    ELSE 0

AllLabels == {"Windows", "Linux", "VMware ESXi"} \cup Range(RuleOrder)

\* C25 as claimed: each banner is matched on its own against the pattern table,
\* every (banner, pattern) match adds 4 to the label of the pattern and one
\* indicator (a pattern matching the banners of two ports contributes 8), and
\* no pattern matches text that spans two banners
C25_Original ==
    Guessed =>
        LET matches == BannerMatches
            pairs   == PortScorePairs(WindowsPorts)
        IN  /\ \A k \in DOMAIN BannerPatterns :
                  IndicatorCount(k) = Cardinality({m \in matches : m[1] = k})
            /\ \A l \in AllLabels :
                  Score(l) = PortScore(pairs, l)
                     + 4 * Cardinality({m \in matches : BannerPatterns[m[1]].os = l})

\* C25 amended: the banners of the open ports are joined by single spaces into
\* one lowercased text and each pattern is searched once in that text: a
\* pattern found adds 4 to its label and one indicator, however many banners
\* hold it, and a pattern may be found across the joint of two banners
C25_PatternsSearchedInJoinedBanners ==
    Guessed =>
        LET found == JoinedMatches
            pairs == PortScorePairs(WindowsPorts)
        IN  /\ \A k \in DOMAIN BannerPatterns :
                  IndicatorCount(k) = IF k \in found THEN 1 ELSE 0
            /\ \A l \in AllLabels :
                  Score(l) = PortScore(pairs, l)
                     + 4 * Cardinality({k \in found : BannerPatterns[k].os = l})
            /\ Len(os_guessed.os_details.method) = Cardinality(found)
            /\ \A m \in BannerMatches : m[1] \in found

\* the banners of two ports both name Ubuntu and Ubuntu is scored 4, once
C25_Witness ==
    /\ Guessed
    /\ Cardinality({m \in BannerMatches : BannerPatterns[m[1]].os = "Ubuntu"}) = 2
    /\ Score("Ubuntu") = 4
    /\ IndicatorCount(1) = 1

\* no port rule applies to the evidence and no banner pattern is found in it
NoEvidence ==
    /\ 3389 \notin OpenSet
    /\ 135 \notin OpenSet
    /\ ~(445 \in OpenSet /\ 139 \in OpenSet)
    /\ 22 \notin OpenSet
    /\ JoinedMatches = {}

\* C26: for a host with no evidence at all (no port rule applies, no banner
\* matches a pattern) _guess_os returns 'Inconnu' with confidence low, no
\* indicator and no score map; with some evidence the label is not 'Inconnu'
C26_NoEvidenceUnknown ==
    Guessed =>
        /\ NoEvidence =>
              /\ os_guessed.os_guess = "Inconnu"
              /\ os_guessed.os_details.confidence = "low"
              /\ os_guessed.os_details.indicators = <<>>
              /\ os_guessed.os_details.method = <<>>
              /\ os_guessed.os_details.scores = <<>>
              /\ "scores" \notin os_guessed.os_details.keys
        /\ ~NoEvidence =>
              /\ os_guessed.os_guess # "Inconnu"
              /\ os_guessed.os_details.indicators # <<>>
              /\ "scores" \in os_guessed.os_details.keys

\* a host with open ports (445, 443 and a web server that names no system)
\* that trigger no rule: the label is 'Inconnu'
C26_Witness ==
    /\ Guessed
    /\ {80, 443, 445} \subseteq OpenSet
    /\ \E i \in DOMAIN Banners : Banners[i] # ""
    /\ os_guessed.os_guess = "Inconnu"
    /\ os_guessed.os_details.indicators = <<>>

-----------------------------------------------------------------------------
(* Properties of _analyze_host *)

\* the keys of a dict check_eol_status returns
StatusKeys == {"os_original", "os_normalized", "status", "criticality", "eol_date",
               "extended_support", "days_until_eol", "days_since_eol", "message"}

\* C27: _analyze_host consults the lifecycle registry exactly when the OS guess
\* is present and is not the unknown label; otherwise (guess None, empty or
\* 'Inconnu') eol_status is status unknown, criticality unknown with the fixed
\* message, the registry is not consulted, and the host is counted unknown
C27_RegistryConsultedWhenIdentified ==
    an_analysis.called =>
        LET os_guess   == an_host.os_guess
            analysis   == an_analysis.analysis
            identified == os_guess \notin {None, "", "Inconnu"}
        IN  /\ analysis.os_detected = os_guess
            /\ analysis.ip = an_host.ip
            /\ identified =>
                  /\ analysis.eol_keys = StatusKeys
                  /\ analysis.eol_status.os_original = os_guess
                  /\ analysis.eol_status
                       = CheckEolStatus(EolDatabase[config].eol_data,
                                        EolDatabase[config].warning_days,
                                        EolDatabase[config].critical_days,
                                        os_guess, ref_date)
            /\ ~identified =>
                  /\ analysis.eol_keys = {"status", "criticality", "message"}
                  /\ analysis.eol_status.status = "unknown"
                  /\ analysis.eol_status.criticality = "unknown"
                  /\ analysis.eol_status.message = "OS non identifie"
                  /\ CountHost(EmptyReport, analysis).summary.unknown = 1
                  /\ Len(CountHost(EmptyReport, analysis).by_criticality.unknown) = 1

\* the host whose label is 'Inconnu' has been analysed without the registry
C27_Witness ==
    /\ an_analysis.called
    /\ an_host.os_guess = "Inconnu"
    /\ an_analysis.analysis.eol_status.message = "OS non identifie"
    /\ "os_original" \notin an_analysis.analysis.eol_keys

-----------------------------------------------------------------------------
(* Properties of the reports on the labels of _guess_os *)

\* the object was constructed without an eol_database section: the lifecycle
\* data are DEFAULT_EOL_DATA
DefaultData == Configs[config].eol_database = <<>>

\* whether no label _guess_os can return (OsLabels, or 'Inconnu') is the name
\* of a version: none is normalized, none is a key of the default data, none
\* names ESXi 6.5
LabelsCarryNoVersion ==
    /\ OsLabels \cup {"Inconnu"}
          = {"Windows", "Linux", "VMware ESXi", "Ubuntu", "Debian", "CentOS", "RHEL",
             "VMware", "Linux/Unix", "Windows Server", "Inconnu"}
    /\ \A label \in OsLabels \cup {"Inconnu"} :
        /\ NormalizeOsName(label) = None
        /\ Lower(label) \notin DOMAIN LoadEolData(DEFAULT_EOL_DATA)
        /\ ~IsEsxi65(label)
        /\ \A today \in RecDates \cup ReportDates :
              LET status == CheckEolStatus(LoadEolData(DEFAULT_EOL_DATA), DefaultWarningDays,
                                           DefaultCriticalDays, label, today)
              IN  /\ status.criticality = "unknown"
                  /\ status.status = "unknown"
                  /\ status.os_normalized = None

\* C28: no label _guess_os can return carries a version, so with the default
\* lifecycle data none is normalized or found in the registry: in every report
\* of generate_full_report every host has criticality unknown, the counts
\* critical, warning and supported are 0, no CRITIQUE or ATTENTION
\* recommendation is made and the ESXi 6.5 entry is never made
C28_DefaultDataAllUnknown ==
    /\ LabelsCarryNoVersion
    /\ (pc = "reported" /\ DefaultData) =>
          /\ \A k \in DOMAIN full_report.hosts :
                /\ full_report.hosts[k].os_detected \in OsLabels \cup {"Inconnu"}
                /\ full_report.hosts[k].eol_status.criticality = "unknown"
          /\ full_report.summary.critical = 0
          /\ full_report.summary.warning = 0
          /\ full_report.summary.supported = 0
          /\ full_report.summary.unknown = Len(full_report.hosts)
          /\ \A i \in DOMAIN full_report.recommendations :
                /\ full_report.recommendations[i].priority = "INFO"
                /\ full_report.recommendations[i].type = "verification_manuelle"
          /\ Len(full_report.recommendations) = IF full_report.hosts = <<>> THEN 0 ELSE 1

\* the report, with the default data, of a scan that found a host labelled
\* 'Windows' and a host labelled 'VMware ESXi': both are unknown
C28_Witness ==
    /\ pc = "reported"
    /\ DefaultData
    /\ \E k \in DOMAIN full_report.hosts : full_report.hosts[k].os_detected = "Windows"
    /\ \E k \in DOMAIN full_report.hosts : full_report.hosts[k].os_detected = "VMware ESXi"
    /\ full_report.summary.unknown = 2
    /\ Len(full_report.recommendations) = 1

-----------------------------------------------------------------------------
(* Properties of check_eol_status as the days go by *)

\* the order ok < warning < critical
Rank(criticality) ==
    CASE criticality = "ok" -> 1
      [] criticality = "warning" -> 2
      [] criticality = "critical" -> 3

\* the record of the OS followed
DayRecord == d_db.eol_data[Lower(d_os)]

\* how many days the extended date is after the end-of-support date (0 when
\* the record has no extended date)
ExtendedBy ==
    IF DayRecord.extended_support = NoDate THEN 0
    ELSE DateOrd(DayRecord.extended_support) - DateOrd(DayRecord.eol_date)

\* days from the end-of-support date to the reference date
DaysAfterEol == DateOrd(ref_date) - DateOrd(DayRecord.eol_date)

\* check_eol_status was called today and the day before
TwoChecks == d_pc = "checked" /\ d_prev # NoStatus

\* today's criticality is below that of the day before
Decreased == TwoChecks /\ Rank(d_status.criticality) < Rank(d_prev.criticality)

\* C29 as claimed: with critical_days <= warning_days the criticality never
\* decreases from one day to the next iff the record has no extended date
\* strictly later than its end-of-support date; when it has one, the
\* criticality is critical on the end-of-support day (critical_soon, delta 0)
\* and warning (extended_support) the day after, and critical again only from
\* the extended date on
C29_Original ==
    /\ Decreased => ExtendedBy > 0
    /\ (TwoChecks /\ DaysAfterEol = 1 /\ ExtendedBy > 0) =>
          /\ d_prev.status = "critical_soon"
          /\ d_prev.criticality = "critical"
          /\ d_status.status = "extended_support"
          /\ d_status.criticality = "warning"
          /\ Decreased

\* C29 amended: with critical_days <= warning_days the criticality decreases
\* from one day to the next only from the end-of-support day (critical_soon,
\* delta 0) to the day after (extended_support, warning), and it does so iff
\* critical_days >= 0 and the extended date is at least two days after the
\* end-of-support date; between the two dates the criticality is warning, from
\* the extended date on (or from the day after the end of support when the
\* extended date is absent or not later than that day) it is critical
C29_DropAfterEndOfSupport ==
    d_pc = "checked" =>
        /\ d_db.critical_days <= d_db.warning_days
        /\ Decreased =>
              /\ DaysAfterEol = 1
              /\ d_prev.status = "critical_soon"
              /\ d_status.status = "extended_support"
        /\ (TwoChecks /\ DaysAfterEol = 1) =>
              (Decreased <=> (d_db.critical_days >= 0 /\ ExtendedBy >= 2))
        /\ (DaysAfterEol >= 1 /\ DaysAfterEol < ExtendedBy) =>
              /\ d_status.status = "extended_support"
              /\ d_status.criticality = "warning"
        /\ (DaysAfterEol >= 1 /\ DaysAfterEol >= ExtendedBy) =>
              /\ d_status.status = "end_of_life"
              /\ d_status.criticality = "critical"
        /\ DaysAfterEol = 0 =>
              (d_status.criticality = "critical" <=> d_db.critical_days >= 0)

\* the day after the end of support of a record whose extended date is five
\* days later: critical the day before, warning today
C29_Witness ==
    /\ Decreased
    /\ DaysAfterEol = 1
    /\ ExtendedBy = 5
    /\ d_prev.status = "critical_soon"
    /\ d_status.status = "extended_support"

-----------------------------------------------------------------------------
(* Properties of get_eol_info *)

\* the inputs whose canonical name has no record in DEFAULT_EOL_DATA
NamesWithoutRecord ==
    {"Windows Server 2008", "Windows 7", "Windows 8", "Windows 8.1 Pro", "Windows 10",
     "Windows 11", "CentOS Stream 8", "CentOS Stream 9"}

\* C30: get_eol_info finds a record iff the lowercased normalized name is a key
\* of the registry or, failing that, the lowercased input is; with the default
\* data the inputs that normalize to a canonical name without a record
\* (Windows Server 2008, Windows 7, 8, 8.1, 10, 11, CentOS Stream 8, 9) get
\* status unknown, criticality unknown and no os_normalized
C30_RecordOfNormalizedOrRawName ==
    Checked =>
        LET normalized == NormalizeOsName(q_os_name)
            by_name    == normalized # None /\ Lower(normalized) \in DOMAIN eol_data
            by_input   == Lower(q_os_name) \in DOMAIN eol_data
            found      == q_status.os_normalized # None
        IN  /\ found <=> (by_name \/ by_input)
            /\ by_name => q_status.os_normalized = eol_data[Lower(normalized)].name
            /\ (~by_name /\ by_input) =>
                  q_status.os_normalized = eol_data[Lower(q_os_name)].name
            /\ ~found =>
                  /\ q_status.status = "unknown"
                  /\ q_status.criticality = "unknown"
                  /\ q_status.eol_date = None
                  /\ q_status.days_until_eol = NoDays
                  /\ q_status.days_since_eol = NoDays
            /\ (Configs[config].eol_database = <<>> /\ q_os_name \in NamesWithoutRecord) =>
                  /\ normalized # None
                  /\ ~found
                  /\ q_status.status = "unknown"
                  /\ q_status.criticality = "unknown"

\* with the default data 'Windows Server 2008' is normalized to a name of its
\* own, which has no record, and is unknown: it is not given the status of
\* Windows Server 2008 R2
C30_Witness ==
    /\ Checked
    /\ Configs[config].eol_database = <<>>
    /\ q_os_name = "Windows Server 2008"
    /\ NormalizeOsName(q_os_name) = "Windows Server 2008"
    /\ "windows server 2008 r2" \in DOMAIN eol_data
    /\ q_status.os_normalized = None
    /\ q_status.status = "unknown"

====
